---- MODULE Spec2Model ----
(***************************************************************************)
(* A model of repo-concat's filtering and concatenation engine:            *)
(*   src/utils/patternUtils.ts        matchesPattern, shouldExclude,       *)
(*                                    validatePattern, globToRegex         *)
(*   src/utils/concatenationUtils.ts  generateFileHeader/Footer,           *)
(*                                    concatenateFiles,                    *)
(*                                    getConcatenationStats                *)
(*   src/utils/fileUtils.ts           hasTextExtension, isTextFile,        *)
(*                                    processFile, processFiles            *)
(*   src/services/githubService.ts    GitHubService.getAllFiles            *)
(*   src/stores/useAppStore.ts        the store of files, selection,       *)
(*                                    preview, rules and collections       *)
(*   src/components/ExcludePatterns.tsx, OutputPanel.tsx, ExportOptions,   *)
(*   GitHubPicker.tsx                 the handlers that add rules, render  *)
(*                                    and export the output, and fetch a   *)
(*                                    repository                           *)
(*   src/utils/performanceUtils.ts    debounce, processBatch               *)
(*   src/services (CollectionService) the collections table                *)
(* JavaScript strings are sequences of one-character strings, so that      *)
(* lower-casing, escaping, joining and searching are computed character by *)
(* character the way the code's string calls compute them.                 *)
(***************************************************************************)
EXTENDS Integers, Sequences, FiniteSets, TLC

VARIABLES
    pc,             \* which operation has run: "input" before any has
    filepath,       \* matchesPattern/shouldExclude: the path argument
    patterns,       \* shouldExclude: the ExcludePattern[] argument
    arg,            \* index into patterns of the rule an operation was given
    matchResult,    \* outcome of matchesPattern
    excludeResult,  \* outcome of shouldExclude
    validateResult, \* outcome of validatePattern
    files,          \* concatenateFiles: the ProcessedFile[] argument
    options,        \* concatenateFiles: the ConcatenationOptions argument
    now,            \* the clock value `new Date()` read during the call
    output,         \* the string concatenateFiles returned
    inputFile,      \* isTextFile: the File argument
    isText,         \* what the promise of isTextFile resolved to
    stats,          \* what getConcatenationStats returned
    tree,           \* getAllFiles: the tree GitHub holds for the repository
    responses,      \* getAllFiles: how GitHub answers each request of the call
    fetched,        \* outcome of getAllFiles
    uploads,        \* processFiles: the File[] argument
    tasks,          \* where each processFile call of processFiles stands
    settled,        \* the promises of processFile settled so far, in the order they settled
    processed,      \* outcome of processFiles, once its promise has settled
    currentFiles,   \* useAppStore: the working set
    excludePatterns, \* useAppStore: the rules
    collections,    \* useAppStore: the collections last listed
    activeCollectionId, \* useAppStore: <<id>>, or <<>> for undefined
    selectedFiles,  \* useAppStore: the selected ids
    previewFile,    \* useAppStore: <<file>>, or <<>> for undefined
    settings,       \* useAppStore: the CollectionSettings
    db,             \* the collections table of the database: by key, <<row>> or <<>> once deleted
    saving,         \* saveCurrentAsCollection calls that await the database
    loading,        \* loadCollection calls that await the database
    generated,      \* the number of generateId calls made
    storeArg,       \* the argument of the last store operation
    steps,          \* the number of store operations the model still performs
    created,        \* the number of createPattern calls made
    ruleOps,        \* the rule operations performed on the store, in order
    ruleLists,      \* excludePatterns at the start and after each rule operation
    shown,          \* OutputPanel: filteredFiles and concatenatedOutput as last rendered
    exported,       \* ExportOptions: what the last generateExport gave its template
    batchItems,     \* processBatch: the items argument
    batchSize,      \* processBatch: the batchSize argument
    cursor,         \* processBatch: the loop variable i
    processorCalls, \* processBatch: where the processor call of each item stands
    finished,       \* processBatch: the processor calls settled so far, in the order they settled
    batchResults,   \* processBatch: the results array
    progressCalls,  \* processBatch: the onProgress calls made, in order
    wallClock,      \* debounce: the time in milliseconds
    waitMs,         \* debounce: the wait argument
    timeoutId,      \* debounce: the variable timeout, 0 for undefined
    timers,         \* the timers set and neither fired nor cleared
    timeline,       \* the calls of the debounced function and the runs of func, in order
    deleting,       \* deleteCollection calls that await the database
    tokenField,     \* GitHubPicker: the state token, what the token field holds
    serviceToken,   \* githubService.token: <<token>>, or <<>> for undefined
    fetches         \* the repository fetches made: the token field at their start and the headers of their requests

patternVars == <<filepath, patterns, arg, matchResult, excludeResult, validateResult>>
concatVars == <<files, options, now, output>>
classifyVars == <<inputFile, isText>>
statsVars == <<stats>>
githubVars == <<tree, responses, fetched>>
processVars == <<uploads, tasks, settled, processed>>
storeVars == <<currentFiles, excludePatterns, collections, activeCollectionId, selectedFiles,
               previewFile, settings, db, saving, loading, generated, storeArg, steps>>
rulesVars == <<created, ruleOps, ruleLists>>
outputVars == <<shown, exported>>
batchVars == <<batchItems, batchSize, cursor, processorCalls, finished, batchResults, progressCalls>>
debounceVars == <<wallClock, waitMs, timeoutId, timers, timeline>>
collectionVars == <<deleting>>
pickerVars == <<tokenField, serviceToken, fetches>>

vars == <<pc, patternVars, concatVars, classifyVars, statsVars, githubVars, processVars,
          storeVars, rulesVars, outputVars, batchVars, debounceVars, collectionVars, pickerVars>>

----------------------------------------------------------------------------
(* Bounds of the model *)

MaxPathLen == 3
MaxPatternLen == 2
MaxRules == 2

----------------------------------------------------------------------------
(* Strings *)

SeqsUpTo(S, n) == UNION {[1..k -> S] : k \in 0..n}

LF == "\n"

\* Characters of file paths: a letter in both cases, the extension dot and a
\* line feed (a legal character of a POSIX or git path). The directory slash
\* is a character like the letter to every operation here; ListPaths has it.
PathChars == {"a", "A", ".", LF}

\* Characters of rule patterns: the letter in both cases, the dot, the two
\* glob wildcards (which are also regex quantifiers) and a blank.
PatternChars == {"a", "A", ".", "*", "?", " "}

UpperCaseLetters ==
    <<"A", "B", "C", "D", "E", "F", "G", "H", "I", "J", "K", "L", "M",
      "N", "O", "P", "Q", "R", "S", "T", "U", "V", "W", "X", "Y", "Z">>

LowerCaseLetters ==
    <<"a", "b", "c", "d", "e", "f", "g", "h", "i", "j", "k", "l", "m",
      "n", "o", "p", "q", "r", "s", "t", "u", "v", "w", "x", "y", "z">>

Digits == <<"0", "1", "2", "3", "4", "5", "6", "7", "8", "9">>

Range(s) == {s[i] : i \in 1..Len(s)}

\* String.prototype.toLowerCase, one character
LowerChar(c) ==
    IF c \in Range(UpperCaseLetters)
    THEN LowerCaseLetters[CHOOSE i \in 1..26 : UpperCaseLetters[i] = c]
    ELSE c

\* String.prototype.toUpperCase, one character
UpperChar(c) ==
    IF c \in Range(LowerCaseLetters)
    THEN UpperCaseLetters[CHOOSE i \in 1..26 : LowerCaseLetters[i] = c]
    ELSE c

toLowerCase(s) == [i \in 1..Len(s) |-> LowerChar(s[i])]

\* String.prototype.startsWith / endsWith / includes
startsWith(s, t) == Len(t) <= Len(s) /\ SubSeq(s, 1, Len(t)) = t

endsWith(s, t) == Len(t) <= Len(s) /\ SubSeq(s, Len(s) - Len(t) + 1, Len(s)) = t

includes(s, t) == \E i \in 1..(Len(s) - Len(t) + 1) : SubSeq(s, i, i + Len(t) - 1) = t

\* White space and line terminators, the characters String.prototype.trim strips
WhiteSpace == {" ", "\t", LF, "\r", "\f"}

RECURSIVE trimStart(_)
trimStart(s) == IF s # <<>> /\ Head(s) \in WhiteSpace THEN trimStart(Tail(s)) ELSE s

RECURSIVE trimEnd(_)
trimEnd(s) ==
    IF s # <<>> /\ s[Len(s)] \in WhiteSpace THEN trimEnd(SubSeq(s, 1, Len(s) - 1)) ELSE s

trim(s) == trimEnd(trimStart(s))

\* The concatenation of a sequence of strings
RECURSIVE Flatten(_)
Flatten(ss) == IF ss = <<>> THEN <<>> ELSE Head(ss) \o Flatten(Tail(ss))

----------------------------------------------------------------------------
(* The host's RegExp, for the sources the model's patterns can produce: a   *)
(* sequence of terms, each an assertion (^ $) or an atom (a literal, an     *)
(* escaped character, the dot) with an optional quantifier (star, plus or   *)
(* question mark, each optionally lazy).  PatternChars holds no bracket,    *)
(* brace or bar, so no group, class or alternation reaches the parser.      *)

Quantifiers == {"*", "+", "?"}

LineTerminators == {LF, "\r"}

QuantifierAt(src, j) ==
    IF j > Len(src) THEN "one"
    ELSE CASE src[j] = "*" -> "star"
           [] src[j] = "+" -> "plus"
           [] src[j] = "?" -> "opt"
           [] OTHER -> "one"

\* Characters a quantifier at j takes: itself and a lazy mark after it
QuantifierLen(src, j) ==
    IF QuantifierAt(src, j) = "one" THEN 0
    ELSE IF j + 1 <= Len(src) /\ src[j + 1] = "?" THEN 2 ELSE 1

SyntaxError == [threw |-> TRUE, terms |-> <<>>]

RECURSIVE ParseTerms(_, _)
ParseTerms(src, i) ==
    IF i > Len(src) THEN [threw |-> FALSE, terms |-> <<>>]
    ELSE LET c == src[i] IN
      CASE c \in Quantifiers -> SyntaxError                \* nothing to repeat
        [] c \in {"(", ")", "[", "|"} -> SyntaxError       \* outside PatternChars
        [] c \in {"^", "$"} ->
             LET rest == ParseTerms(src, i + 1) IN
             IF rest.threw THEN SyntaxError
             ELSE [threw |-> FALSE,
                   terms |-> <<[kind |-> IF c = "^" THEN "bol" ELSE "eol",
                                ch |-> c, quant |-> "one"]>> \o rest.terms]
        [] c = "\\" /\ i = Len(src) -> SyntaxError         \* \ at end of pattern
        [] OTHER ->
             LET atomLen == IF c = "\\" THEN 2 ELSE 1
                 atom == IF c = "\\" THEN [kind |-> "lit", ch |-> src[i + 1]]
                         ELSE IF c = "." THEN [kind |-> "any", ch |-> c]
                         ELSE [kind |-> "lit", ch |-> c]
                 j == i + atomLen
                 rest == ParseTerms(src, j + QuantifierLen(src, j))
             IN IF rest.threw THEN SyntaxError
                ELSE [threw |-> FALSE,
                      terms |-> <<[kind |-> atom.kind, ch |-> atom.ch,
                                   quant |-> QuantifierAt(src, j)]>> \o rest.terms]

\* new RegExp(source, flags): a compiled pattern, or threw = TRUE (SyntaxError)
NewRegExp(source, ignoreCase) ==
    LET parsed == ParseTerms(source, 1) IN
    [threw |-> parsed.threw, terms |-> parsed.terms, ignoreCase |-> ignoreCase]

\* Does the atom of term t match character ch
AtomMatches(t, ch, ignoreCase) ==
    IF t.kind = "any" THEN ch \notin LineTerminators
    ELSE IF ignoreCase THEN UpperChar(ch) = UpperChar(t.ch)
    ELSE ch = t.ch

\* Can terms k.. of re match s from position i (the match may end anywhere)
RECURSIVE MatchFrom(_, _, _, _)
MatchFrom(re, k, s, i) ==
    IF k > Len(re.terms) THEN TRUE
    ELSE LET t == re.terms[k]
             here == i <= Len(s) /\ AtomMatches(t, s[i], re.ignoreCase)
         IN CASE t.kind = "bol" -> i = 1 /\ MatchFrom(re, k + 1, s, i)
              [] t.kind = "eol" -> i = Len(s) + 1 /\ MatchFrom(re, k + 1, s, i)
              [] t.quant = "one" -> here /\ MatchFrom(re, k + 1, s, i + 1)
              [] t.quant = "opt" ->
                   MatchFrom(re, k + 1, s, i) \/ (here /\ MatchFrom(re, k + 1, s, i + 1))
              [] t.quant = "star" ->
                   MatchFrom(re, k + 1, s, i) \/ (here /\ MatchFrom(re, k, s, i + 1))
              [] OTHER ->   \* plus: one, then star
                   here /\ (MatchFrom(re, k + 1, s, i + 1) \/ MatchFrom(re, k, s, i + 1))

\* RegExp.prototype.test without the g flag: a match starting anywhere
RegExpTest(re, s) == \E i \in 1..(Len(s) + 1) : MatchFrom(re, 1, s, i)

----------------------------------------------------------------------------
(* src/utils/patternUtils.ts *)

PatternTypes == {"extension", "glob", "regex", "path"}

\* A type tag outside PatternType, as a stored or hand-built rule may carry
UnknownType == "unknown"

\* The characters the first replace of globToRegex escapes: [.+^${}()|[\]\\]
GlobEscaped == {".", "+", "^", "$", "{", "}", "(", ")", "|", "[", "]", "\\"}

\* pattern.replace(/[.+^${}()|[\]\\]/g, '\\$&')
EscapeSpecials(s) ==
    Flatten([i \in 1..Len(s) |-> IF s[i] \in GlobEscaped THEN <<"\\", s[i]>> ELSE <<s[i]>>])

\* .replace(/\*/g, '.*')
ReplaceStars(s) ==
    Flatten([i \in 1..Len(s) |-> IF s[i] = "*" THEN <<".", "*">> ELSE <<s[i]>>])

\* .replace(/\?/g, '.')
ReplaceQuestionMarks(s) == [i \in 1..Len(s) |-> IF s[i] = "?" THEN "." ELSE s[i]]

globToRegex(pattern) ==
    LET escaped == ReplaceQuestionMarks(ReplaceStars(EscapeSpecials(pattern)))
    IN NewRegExp(<<"^">> \o escaped \o <<"$">>, TRUE)

\* What a call left behind: a returned boolean, or an exception that escaped it
Returned(b) == [raised |-> FALSE, value |-> b]

Raised == [raised |-> TRUE, value |-> FALSE]

\* matchesPattern without the enabled test of lines 21-23
matchesPattern_IgnoreEnabled(path, pattern) ==
    LET normalizedPath == toLowerCase(path)
        normalizedPattern == toLowerCase(pattern.pattern)
    IN CASE pattern.type = "extension" ->
              LET ext == IF startsWith(normalizedPattern, <<".">>)
                         THEN normalizedPattern
                         ELSE <<".">> \o normalizedPattern
              IN Returned(endsWith(normalizedPath, ext))
         [] pattern.type = "glob" ->
              LET re == globToRegex(normalizedPattern)
              IN IF re.threw THEN Returned(FALSE) ELSE Returned(RegExpTest(re, normalizedPath))
         [] pattern.type = "regex" ->
              LET re == NewRegExp(pattern.pattern, TRUE)
              IN IF re.threw THEN Returned(FALSE) ELSE Returned(RegExpTest(re, path))
         [] pattern.type = "path" -> Returned(includes(normalizedPath, normalizedPattern))
         [] OTHER -> Returned(FALSE)

\* matchesPattern with the regex case's try/catch removed: the SyntaxError escapes
matchesPattern_NoCatch(path, pattern) ==
    IF ~pattern.enabled THEN Returned(FALSE)
    ELSE
      LET normalizedPath == toLowerCase(path)
          normalizedPattern == toLowerCase(pattern.pattern)
      IN CASE pattern.type = "extension" ->
                LET ext == IF startsWith(normalizedPattern, <<".">>)
                           THEN normalizedPattern
                           ELSE <<".">> \o normalizedPattern
                IN Returned(endsWith(normalizedPath, ext))
           [] pattern.type = "glob" ->
                LET re == globToRegex(normalizedPattern)
                IN IF re.threw THEN Returned(FALSE) ELSE Returned(RegExpTest(re, normalizedPath))
           [] pattern.type = "regex" ->
                LET re == NewRegExp(pattern.pattern, TRUE)
                IN IF re.threw THEN Raised ELSE Returned(RegExpTest(re, path))
           [] pattern.type = "path" -> Returned(includes(normalizedPath, normalizedPattern))
           [] OTHER -> Returned(FALSE)

\* matchesPattern whose extension case compares the pattern as written,
\* without the leading dot of line 31
matchesPattern_NoDot(path, pattern) ==
    IF ~pattern.enabled THEN Returned(FALSE)
    ELSE
      LET normalizedPath == toLowerCase(path)
          normalizedPattern == toLowerCase(pattern.pattern)
      IN CASE pattern.type = "extension" -> Returned(endsWith(normalizedPath, normalizedPattern))
           [] pattern.type = "glob" ->
                LET re == globToRegex(normalizedPattern)
                IN IF re.threw THEN Returned(FALSE) ELSE Returned(RegExpTest(re, normalizedPath))
           [] pattern.type = "regex" ->
                LET re == NewRegExp(pattern.pattern, TRUE)
                IN IF re.threw THEN Returned(FALSE) ELSE Returned(RegExpTest(re, path))
           [] pattern.type = "path" -> Returned(includes(normalizedPath, normalizedPattern))
           [] OTHER -> Returned(FALSE)

matchesPattern(path, pattern) ==
    IF ~pattern.enabled THEN Returned(FALSE)
    ELSE
      LET normalizedPath == toLowerCase(path)
          normalizedPattern == toLowerCase(pattern.pattern)
      IN CASE pattern.type = "extension" ->
                LET ext == IF startsWith(normalizedPattern, <<".">>)
                           THEN normalizedPattern
                           ELSE <<".">> \o normalizedPattern
                IN Returned(endsWith(normalizedPath, ext))
           [] pattern.type = "glob" ->
                LET re == globToRegex(normalizedPattern)
                IN IF re.threw THEN Returned(FALSE)          \* catch
                   ELSE Returned(RegExpTest(re, normalizedPath))
           [] pattern.type = "regex" ->
                LET re == NewRegExp(pattern.pattern, TRUE)
                IN IF re.threw THEN Returned(FALSE)          \* catch
                   ELSE Returned(RegExpTest(re, path))
           [] pattern.type = "path" ->
                Returned(includes(normalizedPath, normalizedPattern))
           [] OTHER -> Returned(FALSE)                       \* default

NoMatch == [raised |-> FALSE, shouldExclude |-> FALSE, matched |-> FALSE, matchedPattern |-> 0]

\* The for-of loop of shouldExclude from rule i on; matchedPattern holds the
\* id of the returned rule, and matched tells whether the field is present.
RECURSIVE ExcludeFrom(_, _, _)
ExcludeFrom(path, rules, i) ==
    IF i > Len(rules) THEN NoMatch
    ELSE LET m == matchesPattern(path, rules[i]) IN
         IF m.raised
         THEN [raised |-> TRUE, shouldExclude |-> FALSE, matched |-> FALSE, matchedPattern |-> 0]
         ELSE IF m.value
         THEN [raised |-> FALSE, shouldExclude |-> TRUE, matched |-> TRUE,
               matchedPattern |-> rules[i].id]
         ELSE ExcludeFrom(path, rules, i + 1)

\* shouldExclude that keeps scanning and returns the last matching rule
RECURSIVE ExcludeLastFrom(_, _, _)
ExcludeLastFrom(path, rules, i) ==
    IF i < 1 THEN NoMatch
    ELSE IF matchesPattern(path, rules[i]).value
    THEN [raised |-> FALSE, shouldExclude |-> TRUE, matched |-> TRUE,
          matchedPattern |-> rules[i].id]
    ELSE ExcludeLastFrom(path, rules, i - 1)

shouldExclude_LastMatch(path, rules) == ExcludeLastFrom(path, rules, Len(rules))

shouldExclude(path, rules) == ExcludeFrom(path, rules, 1)

AlphaNumeric == Range(UpperCaseLetters) \cup Range(LowerCaseLetters) \cup Range(Digits)

\* /^\.?[a-zA-Z0-9]+$/.test(pattern)
ExtensionSyntax(pattern) ==
    LET body == IF pattern # <<>> /\ Head(pattern) = "." THEN Tail(pattern) ELSE pattern
    IN Len(body) >= 1 /\ \A i \in 1..Len(body) : body[i] \in AlphaNumeric

Valid == [valid |-> TRUE, error |-> "undefined"]

Invalid(message) == [valid |-> FALSE, error |-> message]

\* validatePattern that tests the pattern for emptiness without trimming it
validatePattern_NoTrim(pattern, type) ==
    IF pattern = <<>> THEN Invalid("Pattern cannot be empty")
    ELSE CASE type = "extension" ->
                IF ~ExtensionSyntax(pattern)
                THEN Invalid("Extension must contain only letters and numbers")
                ELSE Valid
           [] type = "glob" ->
                IF globToRegex(pattern).threw THEN Invalid("Invalid glob pattern") ELSE Valid
           [] type = "regex" ->
                IF NewRegExp(pattern, FALSE).threw THEN Invalid("Invalid regex") ELSE Valid
           [] type = "path" ->
                IF includes(pattern, <<".", ".">>)
                THEN Invalid("Path traversal patterns are not allowed")
                ELSE Valid
           [] OTHER -> Valid

validatePattern(pattern, type) ==
    IF trim(pattern) = <<>> THEN Invalid("Pattern cannot be empty")
    ELSE CASE type = "extension" ->
                IF ~ExtensionSyntax(pattern)
                THEN Invalid("Extension must contain only letters and numbers")
                ELSE Valid
           [] type = "glob" ->
                IF globToRegex(pattern).threw THEN Invalid("Invalid glob pattern") ELSE Valid
           [] type = "regex" ->
                IF NewRegExp(pattern, FALSE).threw THEN Invalid("Invalid regex") ELSE Valid
           [] type = "path" ->
                IF includes(pattern, <<".", ".">>)
                THEN Invalid("Path traversal patterns are not allowed")
                ELSE Valid
           [] OTHER -> Valid

----------------------------------------------------------------------------
(* The pattern operations as a state machine: the arguments are drawn in    *)
(* Init, one operation runs on them.                                        *)

FilePaths == SeqsUpTo(PathChars, MaxPathLen)

\* The rules of every kind over a set of patterns, enabled or not; the id of a
\* rule is its place in the list.
RuleSet(id, pats) ==
    [id : {id}, type : PatternTypes \cup {UnknownType}, pattern : pats, enabled : BOOLEAN]

RECURSIVE RuleLists(_, _)
RuleLists(n, pats) ==
    IF n = 0 THEN {<<>>}
    ELSE {Append(l, r) : l \in RuleLists(n - 1, pats), r \in RuleSet(n, pats)}

\* A single rule is tried with every pattern and every path of the bounds; the
\* lists of several rules take their patterns and paths from these two sets.
\* As a regex "*" does not compile; as a glob it matches every path without a
\* line terminator.
ListPatterns == {<<"a">>, <<"*">>}

ListPaths == {<<>>, <<"a">>, <<".", "a">>, <<"A", "/", "a">>, <<"/">>, <<LF>>}

IdleMatch == Returned(FALSE)

IdleClassify ==
    /\ inputFile = [name |-> <<>>, type |-> <<>>,
                    body |-> [size |-> 0, at |-> 0, byte |-> 0],
                    sampleFails |-> FALSE, readFails |-> FALSE]
    /\ isText = FALSE

IdleConcat ==
    /\ files = <<>>
    /\ options = [includeHeaders |-> FALSE, headerFormat |-> "none",
                  customHeaderTemplate |-> <<>>, hasTemplate |-> FALSE, separator |-> <<>>]
    /\ now = 0
    /\ output = <<>>

IdleStats ==
    stats = [fileCount |-> 0, totalSize |-> 0, totalLines |-> 0,
             fileTypes |-> <<>>, averageFileSize |-> 0]

IdleGitHub ==
    /\ tree = <<>>
    /\ responses = [repository |-> "ok", tree |-> "ok", contents |-> <<>>]
    /\ fetched = [raised |-> FALSE, value |-> <<>>]

IdleProcess ==
    /\ uploads = <<>>
    /\ tasks = <<>>
    /\ settled = <<>>
    /\ processed = [settled |-> FALSE, raised |-> FALSE, value |-> <<>>]

IdleStore ==
    /\ currentFiles = <<>>
    /\ excludePatterns = <<>>
    /\ collections = <<>>
    /\ activeCollectionId = <<>>
    /\ selectedFiles = <<>>
    /\ previewFile = <<>>
    /\ settings = [includeHeaders |-> TRUE, headerFormat |-> "comment",
                   sortBy |-> "name", sortOrder |-> "asc"]
    /\ db = <<>>
    /\ saving = <<>>
    /\ loading = <<>>
    /\ generated = 0
    /\ storeArg = <<>>
    /\ steps = 0

IdleRules ==
    /\ created = 0
    /\ ruleOps = <<>>
    /\ ruleLists = <<>>

IdleOutput ==
    /\ shown = [files |-> <<>>, output |-> <<>>]
    /\ exported = [alerted |-> FALSE, format |-> "plain", concatenated |-> <<>>,
                   fileCount |-> 0, totalSize |-> 0, excludePatterns |-> <<>>,
                   files |-> <<>>, filteredFiles |-> <<>>]

IdleBatch ==
    /\ batchItems = <<>>
    /\ batchSize = 0
    /\ cursor = 0
    /\ processorCalls = <<>>
    /\ finished = <<>>
    /\ batchResults = <<>>
    /\ progressCalls = <<>>

IdleDebounce ==
    /\ wallClock = 0
    /\ waitMs = 0
    /\ timeoutId = 0
    /\ timers = {}
    /\ timeline = <<>>

IdleCollections ==
    deleting = <<>>

IdlePicker ==
    /\ tokenField = <<>>
    /\ serviceToken = <<>>
    /\ fetches = <<>>

PatternInit ==
    /\ pc = "input"
    /\ \/ /\ filepath \in FilePaths
          /\ patterns \in RuleLists(1, SeqsUpTo(PatternChars, MaxPatternLen))
       \/ /\ filepath \in ListPaths
          /\ patterns \in UNION {RuleLists(n, ListPatterns) : n \in 0..MaxRules}
    /\ arg = 0
    /\ matchResult = IdleMatch
    /\ excludeResult = NoMatch
    /\ validateResult = Valid
    /\ IdleConcat
    /\ IdleClassify
    /\ IdleStats
    /\ IdleGitHub
    /\ IdleProcess
    /\ IdleStore
    /\ IdleRules
    /\ IdleOutput
    /\ IdleBatch
    /\ IdleDebounce
    /\ IdleCollections
    /\ IdlePicker

MatchesPattern(i) ==
    /\ pc = "input"
    /\ pc' = "matchesPattern"
    /\ arg' = i
    /\ matchResult' = matchesPattern(filepath, patterns[i])
    /\ UNCHANGED <<filepath, patterns, excludeResult, validateResult, concatVars, classifyVars,
                   statsVars, githubVars, processVars, storeVars, rulesVars, outputVars,
                   batchVars, debounceVars, collectionVars, pickerVars>>

ShouldExclude ==
    /\ pc = "input"
    /\ pc' = "shouldExclude"
    /\ excludeResult' = shouldExclude(filepath, patterns)
    /\ UNCHANGED <<filepath, patterns, arg, matchResult, validateResult, concatVars,
                   classifyVars, statsVars, githubVars, processVars, storeVars, rulesVars,
                   outputVars, batchVars, debounceVars, collectionVars, pickerVars>>

ValidatePattern(i) ==
    /\ pc = "input"
    /\ pc' = "validatePattern"
    /\ arg' = i
    /\ validateResult' = validatePattern(patterns[i].pattern, patterns[i].type)
    /\ UNCHANGED <<filepath, patterns, matchResult, excludeResult, concatVars, classifyVars,
                   statsVars, githubVars, processVars, storeVars, rulesVars, outputVars,
                   batchVars, debounceVars, collectionVars, pickerVars>>

PatternNext ==
    \/ \E i \in 1..Len(patterns) : MatchesPattern(i)
    \/ ShouldExclude
    \/ \E i \in 1..Len(patterns) : ValidatePattern(i)

PatternSpec == PatternInit /\ [][PatternNext]_vars

----------------------------------------------------------------------------
(* Claims about the pattern matcher and the exclusion engine, PatternSpec   *)

Min(S) == CHOOSE x \in S : \A y \in S : x <= y

\* The indices of the rules of the list that match the path
MatchingRules == {i \in 1..Len(patterns) : matchesPattern(filepath, patterns[i]).value}

\* C1: shouldExclude returns excluded = true with the lowest-index matching
\* rule of the list, and excluded = false with no matched rule exactly when
\* no rule of the list matches (the empty list included).
C1_FirstMatchingRule ==
    pc = "shouldExclude" =>
        IF MatchingRules = {}
        THEN /\ ~excludeResult.shouldExclude
             /\ ~excludeResult.matched
        ELSE /\ excludeResult.shouldExclude
             /\ excludeResult.matched
             /\ excludeResult.matchedPattern = patterns[Min(MatchingRules)].id

\* two rules match the path and the first of them is the one reported
C1_Witness ==
    /\ pc = "shouldExclude"
    /\ Cardinality(MatchingRules) = 2
    /\ patterns[1].type = "extension"
    /\ patterns[2].type = "path"
    /\ patterns[1].pattern # <<>>
    /\ patterns[2].pattern # <<>>
    /\ excludeResult.matchedPattern = patterns[1].id

\* C2: a rule whose enabled flag is false matches no path, whatever its
\* kind and pattern.
C2_DisabledNeverMatches ==
    (pc = "matchesPattern" /\ ~patterns[arg].enabled) => matchResult = Returned(FALSE)

\* a disabled rule that would match the path were it enabled
C2_Witness ==
    /\ pc = "matchesPattern"
    /\ ~patterns[arg].enabled
    /\ patterns[arg].type = "glob"
    /\ Len(patterns[arg].pattern) = MaxPatternLen
    /\ matchesPattern(filepath, [patterns[arg] EXCEPT !.enabled = TRUE]).value
    /\ matchResult = Returned(FALSE)

\* A rule the matcher cannot evaluate: a Regex or Glob rule whose pattern does
\* not compile, or a rule of a kind outside the four dialects
Malformed(r) ==
    \/ r.type = "regex" /\ NewRegExp(r.pattern, TRUE).threw
    \/ r.type = "glob" /\ globToRegex(toLowerCase(r.pattern)).threw
    \/ r.type \notin PatternTypes

\* C3: matching is fail-open: matchesPattern never raises, a malformed rule
\* yields false, and in shouldExclude malformed rules placed before a
\* matching rule do not keep that rule from being reported.
C3_FailOpen ==
    /\ pc = "matchesPattern" =>
          /\ ~matchResult.raised
          /\ Malformed(patterns[arg]) => ~matchResult.value
    /\ pc = "shouldExclude" =>
          /\ ~excludeResult.raised
          /\ \A i \in 1..Len(patterns) :
                (/\ \A j \in 1..(i - 1) : patterns[j].enabled /\ Malformed(patterns[j])
                 /\ ~Malformed(patterns[i])
                 /\ matchesPattern(filepath, patterns[i]).value)
                => (excludeResult.shouldExclude
                      /\ excludeResult.matchedPattern = patterns[i].id)

\* an enabled regex rule that does not compile stands before a matching rule,
\* and the matching rule is reported
C3_Witness ==
    /\ pc = "shouldExclude"
    /\ Len(patterns) = 2
    /\ patterns[1].enabled
    /\ patterns[1].type = "regex"
    /\ NewRegExp(patterns[1].pattern, TRUE).threw
    /\ patterns[2].pattern # <<>>
    /\ ~Malformed(patterns[2])
    /\ excludeResult.shouldExclude
    /\ excludeResult.matchedPattern = patterns[2].id

\* The pattern with a leading dot when it lacks one
Dotted(pattern) ==
    IF pattern # <<>> /\ Head(pattern) = "." THEN pattern ELSE <<".">> \o pattern

\* s ends with t when letter case is ignored
EndsWithIgnoringCase(s, t) ==
    /\ Len(t) <= Len(s)
    /\ \A k \in 1..Len(t) : LowerChar(s[Len(s) - Len(t) + k]) = LowerChar(t[k])

\* C4: an enabled Extension rule matches iff the lower-cased path ends with
\* the lower-cased pattern given a leading dot when it lacks one; "js" and
\* ".js" are equivalent and the letter case of path and pattern is ignored.
C4_ExtensionSuffix ==
    (pc = "matchesPattern" /\ patterns[arg].enabled /\ patterns[arg].type = "extension") =>
        /\ ~matchResult.raised
        /\ matchResult.value = EndsWithIgnoringCase(filepath, Dotted(patterns[arg].pattern))
        /\ matchResult =
             matchesPattern(filepath, [patterns[arg] EXCEPT !.pattern = Dotted(@)])
        /\ matchResult =
             matchesPattern(toLowerCase(filepath), [patterns[arg] EXCEPT !.pattern = toLowerCase(@)])

\* a pattern written without its dot and in another letter case than the path
C4_Witness ==
    /\ pc = "matchesPattern"
    /\ patterns[arg].enabled
    /\ patterns[arg].type = "extension"
    /\ patterns[arg].pattern = <<"A">>
    /\ filepath = <<"a", ".", "a">>
    /\ matchResult.value

\* The glob match of the claim: the whole of s against the whole of p, "*" any
\* sequence of characters, "?" any one character, every other character itself
RECURSIVE GlobMatch(_, _)
GlobMatch(p, s) ==
    IF p = <<>> THEN s = <<>>
    ELSE CASE Head(p) = "*" ->
                GlobMatch(Tail(p), s) \/ (s # <<>> /\ GlobMatch(p, Tail(s)))
           [] Head(p) = "?" -> s # <<>> /\ GlobMatch(Tail(p), Tail(s))
           [] OTHER -> s # <<>> /\ Head(s) = Head(p) /\ GlobMatch(Tail(p), Tail(s))

\* C5: an enabled Glob rule matches iff the lower-cased path is a whole-string
\* glob match of the lower-cased pattern, "*" matching any sequence of
\* characters ("/" included), "?" any one character, every other character
\* itself.
C5_GlobReference ==
    (pc = "matchesPattern" /\ patterns[arg].enabled /\ patterns[arg].type = "glob") =>
        matchResult.value = GlobMatch(toLowerCase(patterns[arg].pattern), toLowerCase(filepath))

\* A string is blank when it is empty or holds white space only
Blank(s) == \A i \in 1..Len(s) : s[i] \in WhiteSpace

\* Letters and digits, at least one, optionally preceded by one dot
LettersAndDigits(s) ==
    LET first == IF s # <<>> /\ s[1] = "." THEN 2 ELSE 1
    IN /\ first <= Len(s)
       /\ \A i \in first..Len(s) : s[i] \in AlphaNumeric

\* The cases in which the claim has validate reject the pattern
Rejected(pattern, type) ==
    \/ Blank(pattern)
    \/ type = "extension" /\ ~LettersAndDigits(pattern)
    \/ type = "glob" /\ globToRegex(pattern).threw
    \/ type = "regex" /\ NewRegExp(pattern, FALSE).threw
    \/ type = "path" /\ \E i \in 1..(Len(pattern) - 1) : pattern[i] = "." /\ pattern[i + 1] = "."

\* C6: validatePattern returns valid = false with an error message exactly for
\* a blank pattern, an Extension pattern that is not letters/digits after an
\* optional dot, a Glob or Regex pattern that does not compile and a
\* PathSubstring pattern containing ".."; otherwise valid = true, no error.
C6_ValidateExactly ==
    pc = "validatePattern" =>
        IF Rejected(patterns[arg].pattern, patterns[arg].type)
        THEN ~validateResult.valid /\ validateResult.error # "undefined"
        ELSE validateResult = Valid

\* a non-blank regex pattern that does not compile is rejected
C6_Witness ==
    /\ pc = "validatePattern"
    /\ patterns[arg].type = "regex"
    /\ ~Blank(patterns[arg].pattern)
    /\ validateResult = Invalid("Invalid regex")

----------------------------------------------------------------------------
(* src/utils/concatenationUtils.ts *)

MaxFiles == 2

\* '*'.repeat(50)
StarCount == 50

Stars == [i \in 1..StarCount |-> "*"]

CommentOpen ==
    <<"/", "*">>

CommentClose ==
    <<"*", "/">>

FileLabel ==
    <<" ", "*", " ", "F", "i", "l", "e", ":", " ">>

SizeLabel ==
    <<" ", "*", " ", "S", "i", "z", "e", ":", " ">>

BytesSuffix ==
    <<" ", "b", "y", "t", "e", "s">>

ModifiedLabel ==
    <<" ", "*", " ", "M", "o", "d", "i", "f", "i", "e", "d", ":", " ">>

MarkdownHeading ==
    <<"#", "#", " ">>

MarkdownSize ==
    <<"-", " ", "*", "*", "S", "i", "z", "e", ":", "*", "*", " ">>

MarkdownModified ==
    <<"-", " ", "*", "*", "M", "o", "d", "i", "f", "i", "e", "d", ":", "*",
      "*", " ">>

\* The grave accent U+0060, which a TLA+ string cannot hold, as one character
Grave == "GRAVE"

CodeFence ==
    <<Grave, Grave, Grave>>

ReportTitle ==
    <<" ", "*", " ", "F", "i", "l", "e", " ", "C", "o", "n", "c", "a", "t",
      "e", "n", "a", "t", "i", "o", "n", " ", "R", "e", "p", "o", "r", "t">>

GeneratedLabel ==
    <<" ", "*", " ", "G", "e", "n", "e", "r", "a", "t", "e", "d", ":", " ">>

TotalFilesLabel ==
    <<" ", "*", " ", "T", "o", "t", "a", "l", " ", "F", "i", "l", "e", "s",
      ":", " ">>

MarkdownReportTitle ==
    <<"#", " ", "F", "i", "l", "e", " ", "C", "o", "n", "c", "a", "t", "e",
      "n", "a", "t", "i", "o", "n", " ", "R", "e", "p", "o", "r", "t">>

MarkdownGenerated ==
    <<"G", "e", "n", "e", "r", "a", "t", "e", "d", ":", " ">>

MarkdownTotalFiles ==
    <<"T", "o", "t", "a", "l", " ", "F", "i", "l", "e", "s", ":", " ">>

PathPlaceholder ==
    <<"{", "p", "a", "t", "h", "}">>

NamePlaceholder ==
    <<"{", "n", "a", "m", "e", "}">>

SizePlaceholder ==
    <<"{", "s", "i", "z", "e", "}">>

ModifiedPlaceholder ==
    <<"{", "m", "o", "d", "i", "f", "i", "e", "d", "}">>

SampleTemplate ==
    <<"#", " ", "{", "p", "a", "t", "h", "}", " ", "{", "n", "a", "m", "e",
      "}", " ", "{", "s", "i", "z", "e", "}", " ", "{", "m", "o", "d", "i",
      "f", "i", "e", "d", "}">>

\* Dates are numbered; 1 and 2 are modification times of files, 3 and 4 are
\* readings of the clock.  Their renderings are those of the en-US locale in UTC.
ISO1 ==
    <<"2", "0", "2", "4", "-", "0", "1", "-", "0", "1", "T", "0", "0", ":",
      "0", "0", ":", "0", "0", ".", "0", "0", "0", "Z">>

Locale1 ==
    <<"1", "/", "1", "/", "2", "0", "2", "4", ",", " ", "1", "2", ":", "0",
      "0", ":", "0", "0", " ", "A", "M">>

ISO2 ==
    <<"2", "0", "2", "4", "-", "0", "1", "-", "0", "2", "T", "0", "0", ":",
      "0", "0", ":", "0", "0", ".", "0", "0", "0", "Z">>

Locale2 ==
    <<"1", "/", "2", "/", "2", "0", "2", "4", ",", " ", "1", "2", ":", "0",
      "0", ":", "0", "0", " ", "A", "M">>

ISO3 ==
    <<"2", "0", "2", "4", "-", "0", "6", "-", "0", "1", "T", "1", "2", ":",
      "0", "0", ":", "0", "0", ".", "0", "0", "0", "Z">>

Locale3 ==
    <<"6", "/", "1", "/", "2", "0", "2", "4", ",", " ", "1", "2", ":", "0",
      "0", ":", "0", "0", " ", "P", "M">>

ISO4 ==
    <<"2", "0", "2", "4", "-", "0", "6", "-", "0", "1", "T", "1", "2", ":",
      "0", "0", ":", "0", "1", ".", "0", "0", "0", "Z">>

Locale4 ==
    <<"6", "/", "1", "/", "2", "0", "2", "4", ",", " ", "1", "2", ":", "0",
      "0", ":", "0", "1", " ", "P", "M">>

toISOString(d) ==
    CASE d = 1 -> ISO1 [] d = 2 -> ISO2 [] d = 3 -> ISO3 [] OTHER -> ISO4

toLocaleString(d) ==
    CASE d = 1 -> Locale1 [] d = 2 -> Locale2 [] d = 3 -> Locale3 [] OTHER -> Locale4

\* Number.prototype.toString of a non-negative integer
RECURSIVE NumberToString(_)
NumberToString(n) ==
    IF n < 10 THEN <<Digits[n + 1]>>
    ELSE NumberToString(n \div 10) \o <<Digits[(n % 10) + 1]>>

\* Array.prototype.join
RECURSIVE join(_, _)
join(parts, glue) ==
    IF parts = <<>> THEN <<>>
    ELSE IF Len(parts) = 1 THEN parts[1]
    ELSE parts[1] \o glue \o join(Tail(parts), glue)

\* Array.prototype.filter(line => line !== '')
RECURSIVE NonEmptyLines(_)
NonEmptyLines(lines) ==
    IF lines = <<>> THEN <<>>
    ELSE IF Head(lines) = <<>> THEN NonEmptyLines(Tail(lines))
    ELSE <<Head(lines)>> \o NonEmptyLines(Tail(lines))

\* String.prototype.replace with a global literal pattern: every occurrence of
\* pat, scanning left to right, becomes rep; the inserted text is not rescanned.
\* (No path or name of the model holds "$", so rep has no replacement pattern.)
RECURSIVE ReplaceAll(_, _, _)
ReplaceAll(s, pat, rep) ==
    IF s = <<>> THEN <<>>
    ELSE IF startsWith(s, pat)
    THEN rep \o ReplaceAll(SubSeq(s, Len(pat) + 1, Len(s)), pat, rep)
    ELSE <<Head(s)>> \o ReplaceAll(Tail(s), pat, rep)

CommentHeader(file) ==
    join(<<CommentOpen \o Stars,
           FileLabel \o file.path,
           SizeLabel \o NumberToString(file.size) \o BytesSuffix,
           ModifiedLabel \o toISOString(file.lastModified),
           <<" ">> \o Stars \o CommentClose,
           <<>>>>, <<LF>>)

generateFileHeader(file, format, hasTemplate, customTemplate) ==
    CASE format = "comment" -> CommentHeader(file)
      [] format = "markdown" ->
           join(<<MarkdownHeading \o file.path,
                  <<>>,
                  MarkdownSize \o NumberToString(file.size) \o BytesSuffix,
                  MarkdownModified \o toLocaleString(file.lastModified),
                  <<>>,
                  CodeFence,
                  <<>>>>, <<LF>>)
      [] format = "custom" ->
           IF hasTemplate /\ customTemplate # <<>>     \* if (customTemplate)
           THEN ReplaceAll(
                    ReplaceAll(
                        ReplaceAll(
                            ReplaceAll(customTemplate, PathPlaceholder, file.path),
                            NamePlaceholder, file.name),
                        SizePlaceholder, NumberToString(file.size)),
                    ModifiedPlaceholder, toISOString(file.lastModified)) \o <<LF>>
           ELSE CommentHeader(file)
      [] OTHER -> <<>>

generateFileFooter(format) ==
    IF format = "markdown" THEN <<LF>> \o CodeFence \o <<LF>> ELSE <<>>

\* The document-level header of lines 79-86
MainHeader(n, opts, clock) ==
    LET md == opts.headerFormat = "markdown" IN
    join(NonEmptyLines(
           <<CommentOpen \o (IF md THEN <<>> ELSE Stars),
             IF md THEN MarkdownReportTitle ELSE ReportTitle,
             IF md THEN <<>> ELSE GeneratedLabel \o toISOString(clock),
             IF md THEN MarkdownGenerated \o toLocaleString(clock)
                   ELSE TotalFilesLabel \o NumberToString(n),
             IF md THEN MarkdownTotalFiles \o NumberToString(n)
                   ELSE <<" ">> \o Stars \o CommentClose,
             <<>>>>), <<LF>>)

\* The parts one file pushes, lines 93-113
FileParts(fs, index, opts) ==
    LET file == fs[index]
        footer == generateFileFooter(opts.headerFormat)
    IN (IF opts.includeHeaders
        THEN <<generateFileHeader(file, opts.headerFormat, opts.hasTemplate,
                                  opts.customHeaderTemplate)>>
        ELSE <<>>)
       \o <<file.content>>
       \o (IF opts.includeHeaders /\ footer # <<>> THEN <<footer>> ELSE <<>>)
       \o (IF index < Len(fs) THEN <<opts.separator>> ELSE <<>>)

RECURSIVE PartsFrom(_, _, _)
PartsFrom(fs, index, opts) ==
    IF index > Len(fs) THEN <<>>
    ELSE FileParts(fs, index, opts) \o PartsFrom(fs, index + 1, opts)

\* FileParts without the index test of line 111: a separator after every file
FileParts_SeparatorAlways(fs, index, opts) ==
    LET file == fs[index]
        footer == generateFileFooter(opts.headerFormat)
    IN (IF opts.includeHeaders
        THEN <<generateFileHeader(file, opts.headerFormat, opts.hasTemplate,
                                  opts.customHeaderTemplate)>>
        ELSE <<>>)
       \o <<file.content>>
       \o (IF opts.includeHeaders /\ footer # <<>> THEN <<footer>> ELSE <<>>)
       \o <<opts.separator>>

RECURSIVE PartsFrom_SeparatorAlways(_, _, _)
PartsFrom_SeparatorAlways(fs, index, opts) ==
    IF index > Len(fs) THEN <<>>
    ELSE FileParts_SeparatorAlways(fs, index, opts)
            \o PartsFrom_SeparatorAlways(fs, index + 1, opts)

\* concatenateFiles pushing the separator after the last file too
concatenateFiles_SeparatorAfterLast(fs, opts, clock) ==
    IF Len(fs) = 0 THEN <<>>
    ELSE join((IF opts.includeHeaders THEN <<MainHeader(Len(fs), opts, clock)>> ELSE <<>>)
                \o PartsFrom_SeparatorAlways(fs, 1, opts), <<LF>>)

\* concatenateFiles ending with parts.join(''): nothing between the parts
concatenateFiles_JoinEmpty(fs, opts, clock) ==
    IF Len(fs) = 0 THEN <<>>
    ELSE join((IF opts.includeHeaders THEN <<MainHeader(Len(fs), opts, clock)>> ELSE <<>>)
                \o PartsFrom(fs, 1, opts), <<>>)

\* concatenateFiles that drops the separator when it is followed by a header
concatenateFiles_NoSeparatorBeforeHeader(fs, opts, clock) ==
    IF Len(fs) = 0 THEN <<>>
    ELSE IF opts.includeHeaders
    THEN join(<<MainHeader(Len(fs), opts, clock)>>
                \o PartsFrom(fs, 1, [opts EXCEPT !.separator = <<>>]), <<LF>>)
    ELSE join(PartsFrom(fs, 1, opts), <<LF>>)

Reverse(q) == [i \in 1..Len(q) |-> q[Len(q) + 1 - i]]

\* concatenateFiles walking the files from the last to the first
concatenateFiles_Reversed(fs, opts, clock) ==
    IF Len(fs) = 0 THEN <<>>
    ELSE join((IF opts.includeHeaders THEN <<MainHeader(Len(fs), opts, clock)>> ELSE <<>>)
                \o PartsFrom(Reverse(fs), 1, opts), <<LF>>)

\* concatenateFiles without the early return of lines 71-73
concatenateFiles_NoEmptyCheck(fs, opts, clock) ==
    join((IF opts.includeHeaders THEN <<MainHeader(Len(fs), opts, clock)>> ELSE <<>>)
            \o PartsFrom(fs, 1, opts), <<LF>>)

\* concatenateFiles pushing the document header whatever includeHeaders is
concatenateFiles_AlwaysStamped(fs, opts, clock) ==
    IF Len(fs) = 0 THEN <<>>
    ELSE join(<<MainHeader(Len(fs), opts, clock)>> \o PartsFrom(fs, 1, opts), <<LF>>)

concatenateFiles(fs, opts, clock) ==
    IF Len(fs) = 0 THEN <<>>
    ELSE join((IF opts.includeHeaders THEN <<MainHeader(Len(fs), opts, clock)>> ELSE <<>>)
                \o PartsFrom(fs, 1, opts), <<LF>>)

----------------------------------------------------------------------------
(* concatenateFiles as a state machine: the arguments are drawn in Init, the *)
(* call reads the clock when it writes the document header.                  *)

\* File contents: empty, one line, ending or starting with a newline, and
\* holding the character the separators are made of
FileContents == {<<>>, <<"a">>, <<"a", "a">>, <<"a", LF>>, <<LF, "a">>, <<"=">>}

\* Separators: empty, newlines only (the default is two), and with a character
\* that no header holds
Separators == {<<>>, <<LF>>, <<LF, LF>>, <<"=">>, <<"=", "=">>, <<"=", LF>>}

\* path, name and modification time of the files of the model
FileIdentities ==
    {[name |-> <<"a">>, path |-> <<"a">>, lastModified |-> 1],
     [name |-> <<"b">>, path |-> <<"=", "/", "b">>, lastModified |-> 2]}

ProcessedFiles ==
    {[name |-> f.name, path |-> f.path, lastModified |-> f.lastModified,
      content |-> c, size |-> Len(c)] :
        f \in FileIdentities, c \in FileContents}

\* customHeaderTemplate: undefined, the empty string, or a template
Templates ==
    {[hasTemplate |-> FALSE, customHeaderTemplate |-> <<>>],
     [hasTemplate |-> TRUE, customHeaderTemplate |-> <<>>],
     [hasTemplate |-> TRUE, customHeaderTemplate |-> SampleTemplate]}

\* "none" is the tag the tests pass for no framing: it takes the default branches
HeaderFormats == {"comment", "markdown", "custom", "none"}

ConcatenationOptions ==
    {[includeHeaders |-> h, headerFormat |-> f, hasTemplate |-> t.hasTemplate,
      customHeaderTemplate |-> t.customHeaderTemplate, separator |-> sep] :
        h \in BOOLEAN, f \in HeaderFormats, t \in Templates,
        sep \in Separators}

Clock == {3, 4}

IdlePattern ==
    /\ filepath = <<>>
    /\ patterns = <<>>
    /\ arg = 0
    /\ matchResult = IdleMatch
    /\ excludeResult = NoMatch
    /\ validateResult = Valid

ConcatInit ==
    /\ pc = "input"
    /\ files \in UNION {[1..n -> ProcessedFiles] : n \in 0..MaxFiles}
    /\ options \in ConcatenationOptions
    /\ now = 0
    /\ output = <<>>
    /\ IdlePattern
    /\ IdleClassify
    /\ IdleStats
    /\ IdleGitHub
    /\ IdleProcess
    /\ IdleStore
    /\ IdleRules
    /\ IdleOutput
    /\ IdleBatch
    /\ IdleDebounce
    /\ IdleCollections
    /\ IdlePicker

\* concatenateFiles(files, options), new Date() returning clock; the caller
\* invokes it once and then once more with the same arguments
ConcatenateFiles(clock) ==
    /\ pc \in {"input", "concatenateFiles"}
    /\ pc' = IF pc = "input" THEN "concatenateFiles" ELSE "concatenateFilesAgain"
    /\ now' = IF options.includeHeaders /\ Len(files) > 0 THEN clock ELSE now
    /\ output' = concatenateFiles(files, options, clock)
    /\ UNCHANGED <<files, options, patternVars, classifyVars, statsVars, githubVars,
                   processVars, storeVars, rulesVars, outputVars, batchVars, debounceVars,
                   collectionVars, pickerVars>>

ConcatNext == \E clock \in Clock : ConcatenateFiles(clock)

ConcatSpec == ConcatInit /\ [][ConcatNext]_vars

----------------------------------------------------------------------------
(* Claims about concatenateFiles, ConcatSpec *)

Called == pc \in {"concatenateFiles", "concatenateFilesAgain"}

\* C7: a single file concatenated with includeHeaders = false comes back as
\* exactly its content, nothing added, dropped or changed.
C7_SingleFileRoundTrip ==
    (Called /\ Len(files) = 1 /\ ~options.includeHeaders) => output = files[1].content

\* a single file whose content ends in a newline, with a separator set
C7_Witness ==
    /\ Called
    /\ Len(files) = 1
    /\ ~options.includeHeaders
    /\ files[1].content = <<"a", LF>>
    /\ options.separator = <<LF, LF>>
    /\ output = <<"a", LF>>

\* content_1 glue content_2 glue ... content_n
RECURSIVE ContentsJoined(_, _, _)
ContentsJoined(fs, i, glue) ==
    IF i = Len(fs) THEN fs[i].content
    ELSE fs[i].content \o glue \o ContentsJoined(fs, i + 1, glue)

\* C8 as stated: with includeHeaders = false the output is the contents with
\* the literal separator between consecutive files and no other character.
C8_Original ==
    (Called /\ Len(files) >= 1 /\ ~options.includeHeaders)
        => output = ContentsJoined(files, 1, options.separator)

\* C8 as amended: with includeHeaders = false the output is the contents in
\* order, and between consecutive files a newline, the separator and a newline.
C8_ContentsNewlineSeparated ==
    (Called /\ Len(files) >= 1 /\ ~options.includeHeaders)
        => output = ContentsJoined(files, 1, <<LF>> \o options.separator \o <<LF>>)

\* two files with different contents and a separator
C8_Witness ==
    /\ Called
    /\ ~options.includeHeaders
    /\ Len(files) = 2
    /\ files[1].content = <<"a">>
    /\ files[2].content = <<"a", "a">>
    /\ options.separator = <<"=", "=">>
    /\ output = <<"a", LF, "=", "=", LF, "a", "a">>

\* The positions of s at which t occurs
OccurrencesAt(s, t) == {i \in 1..(Len(s) - Len(t) + 1) : SubSeq(s, i, i + Len(t) - 1) = t}

\* The number of occurrences of t in s from position i on, counted from the
\* left without overlap (result.split(t).length - 1 for a non-empty t)
RECURSIVE OccurrencesFrom(_, _, _)
OccurrencesFrom(s, t, i) ==
    LET later == {p \in OccurrencesAt(s, t) : p >= i} IN
    IF later = {} THEN 0
    ELSE 1 + OccurrencesFrom(s, t, Min(later) + Len(t))

Occurrences(s, t) == OccurrencesFrom(s, t, 1)

ContentsFreeOf(fs, t) == \A i \in 1..Len(fs) : ~includes(fs[i].content, t)

\* C9 as stated: when no content contains the separator, the output holds
\* exactly len(files) - 1 occurrences of it, whatever the options (taken here
\* for the non-empty separators, whose occurrences can be counted).
C9_Original ==
    (Called /\ Len(files) >= 1 /\ options.separator # <<>>
        /\ ContentsFreeOf(files, options.separator))
        => Occurrences(output, options.separator) = Len(files) - 1

\* The characters the output holds outside its separators: those of the
\* contents, the headers, the footers and the joining newlines
CharsBesideSeparators ==
    Range(concatenateFiles(files, [options EXCEPT !.separator = <<>>], now)) \cup {LF}

\* C9 as amended: when the separator holds a character that occurs nowhere
\* else in the output (in no content, header or footer, and not the joining
\* newline), the output holds exactly len(files) - 1 occurrences of it: none
\* for a single file, none after the last file.
C9_SeparatorCount ==
    (Called /\ Len(files) >= 1
        /\ Range(options.separator) \ CharsBesideSeparators # {})
        => Occurrences(output, options.separator) = Len(files) - 1

\* two files under comment headers, the separator ending in a newline
C9_Witness ==
    /\ Called
    /\ Len(files) = 2
    /\ options.includeHeaders
    /\ options.headerFormat = "comment"
    /\ files[1].path = <<"a">>
    /\ files[2].path = <<"a">>
    /\ options.separator = <<"=", LF>>
    /\ Range(options.separator) \ CharsBesideSeparators # {}
    /\ Occurrences(output, options.separator) = 1

\* Do the contents of files k.. occur in out from position start on, whole,
\* one after the other and without overlap
RECURSIVE ContentsInOrder(_, _, _, _)
ContentsInOrder(out, start, fs, k) ==
    IF k > Len(fs) THEN TRUE
    ELSE LET c == fs[k].content IN
         \E p \in start..(Len(out) - Len(c) + 1) :
            /\ SubSeq(out, p, p + Len(c) - 1) = c
            /\ ContentsInOrder(out, p + Len(c), fs, k + 1)

\* C10: the output has the form w0 c1 w1 ... cn wn, ci the unmodified content
\* of the i-th file: every content whole and in input order; and the call
\* leaves the file list and the options as they were.
C10_ContentsWholeInOrder ==
    /\ [](Called => ContentsInOrder(output, 1, files, 1))
    /\ [][files' = files /\ options' = options]_vars

\* two files with different contents inside markdown framing
C10_Witness ==
    /\ Called
    /\ Len(files) = 2
    /\ options.includeHeaders
    /\ options.headerFormat = "markdown"
    /\ files[1].content = <<"a", LF>>
    /\ files[2].content = <<LF, "a">>
    /\ ContentsInOrder(output, 1, files, 1)

----------------------------------------------------------------------------
(* fileUtils.ts: hasTextExtension and isTextFile.                           *)
(* A File is its name, its declared media type and its bytes. The bytes are *)
(* kept as a size, the place `at` of one byte of interest (0 when there is  *)
(* none) and that byte's value; every other byte is the letter a (0x61).    *)

MaxNameLen == 2

TEXT_EXTENSIONS ==
    {<<"t", "x", "t">>, <<"m", "d">>, <<"m", "d", "x">>, <<"j", "s">>,
     <<"j", "s", "x">>, <<"t", "s">>, <<"t", "s", "x">>, <<"h", "t", "m", "l">>,
     <<"c", "s", "s">>, <<"s", "c", "s", "s">>, <<"s", "a", "s", "s">>,
     <<"j", "s", "o", "n">>, <<"x", "m", "l">>, <<"y", "a", "m", "l">>,
     <<"y", "m", "l">>, <<"s", "h">>, <<"b", "a", "s", "h">>, <<"p", "y">>,
     <<"r", "b">>, <<"j", "a", "v", "a">>, <<"c">>, <<"c", "p", "p">>,
     <<"h">>, <<"h", "p", "p">>, <<"c", "s">>, <<"g", "o">>, <<"r", "s">>,
     <<"p", "h", "p">>, <<"p", "l">>, <<"s", "w", "i", "f", "t">>,
     <<"k", "t">>, <<"c", "o", "n", "f", "i", "g">>, <<"c", "o", "n", "f">>,
     <<"i", "n", "i">>, <<"c", "s", "v">>, <<"t", "s", "v">>, <<"s", "q", "l">>,
     <<"g", "r", "a", "p", "h", "q", "l">>, <<"e", "n", "v">>, <<"g", "i", "t", "i", "g", "n", "o", "r", "e">>,
     <<"d", "o", "c", "k", "e", "r", "i", "g", "n", "o", "r", "e">>,
     <<"v", "u", "e">>, <<"s", "v", "e", "l", "t", "e">>, <<"l", "u", "a">>,
     <<"r">>, <<"p", "s", "1">>, <<"b", "a", "t">>, <<"c", "m", "d">>,
     <<"a", "s", "m">>, <<"s">>, <<"g", "r", "o", "o", "v", "y">>,
     <<"g", "r", "a", "d", "l", "e">>, <<"t", "f">>, <<"t", "o", "m", "l">>,
     <<"p", "r", "o", "p", "e", "r", "t", "i", "e", "s">>, <<"p", "l", "i", "s", "t">>}

\* String.prototype.split with a one-character separator
RECURSIVE split(_, _)
split(s, c) ==
    IF \A i \in 1..Len(s) : s[i] # c THEN <<s>>
    ELSE LET i == CHOOSE k \in 1..Len(s) : s[k] = c /\ \A j \in 1..(k - 1) : s[j] # c
         IN <<SubSeq(s, 1, i - 1)>> \o split(SubSeq(s, i + 1, Len(s)), c)

\* Array.prototype.pop()'s return value on a non-empty array
pop(a) == a[Len(a)]

hasTextExtension(filename) ==
    LET extension == toLowerCase(pop(split(filename, ".")))
    IN IF extension # <<>> THEN extension \in TEXT_EXTENSIONS ELSE FALSE

\* Blob.prototype.slice(start, end), start and end counted from 0
slice(body, start, end) ==
    [size |-> IF body.size < end THEN body.size - start ELSE end - start,
     at   |-> IF body.at > start /\ body.at <= end THEN body.at - start ELSE 0,
     byte |-> body.byte]

\* Blob.prototype.text(): UTF-8 decoding. A byte under 0x80 is the character
\* of that code, a lone byte from 0x80 on decodes to U+FFFD.
ReplacementCharacter == 65533

text(blob) ==
    [blob EXCEPT !.byte = IF blob.byte < 128 THEN blob.byte ELSE ReplacementCharacter]

\* The class [\x00-\x08\x0E-\x1F\x7F] of line 50
BinaryCharacters == (0..8) \cup (14..31) \cup {127}

HasBinaryCharacter(str) == str.at # 0 /\ str.byte \in BinaryCharacters

TextSlash == <<"t", "e", "x", "t", "/">>

ApplicationJson == <<"a", "p", "p", "l", "i", "c", "a", "t", "i", "o", "n", "/", "j", "s", "o", "n">>

ApplicationXml == <<"a", "p", "p", "l", "i", "c", "a", "t", "i", "o", "n", "/", "x", "m", "l">>

ApplicationJavascript == <<"a", "p", "p", "l", "i", "c", "a", "t", "i", "o", "n", "/", "j", "a", "v", "a", "s", "c", "r", "i", "p", "t">>

SampleSize == 1024

\* isTextFile testing the whole content, not the first SampleSize bytes
isTextFile_WholeContent(f) ==
    IF hasTextExtension(f.name) THEN TRUE
    ELSE IF \/ startsWith(f.type, TextSlash)
            \/ f.type = ApplicationJson
            \/ f.type = ApplicationXml
            \/ f.type = ApplicationJavascript
    THEN TRUE
    ELSE IF f.sampleFails THEN FALSE
    ELSE ~HasBinaryCharacter(text(f.body))

\* The value the promise of isTextFile resolves to; the promise never rejects
isTextFile(f) ==
    IF hasTextExtension(f.name) THEN TRUE
    ELSE IF \/ startsWith(f.type, TextSlash)
            \/ f.type = ApplicationJson
            \/ f.type = ApplicationXml
            \/ f.type = ApplicationJavascript
    THEN TRUE
    ELSE IF f.sampleFails THEN FALSE
    ELSE ~HasBinaryCharacter(text(slice(f.body, 0, SampleSize)))

----------------------------------------------------------------------------
(* isTextFile as a state machine: the File is drawn in Init *)

\* Characters of file names: c is on the list of extensions in either case, x
\* is not
NameChars == {"c", "C", "x", "."}

FileNames == SeqsUpTo(NameChars, MaxNameLen)

\* Declared media types: none, three of text, the three application types
\* named by the code, one near them and two of binary data
MediaTypes ==
    {<<>>, <<"t", "e", "x", "t", "/", "p", "l", "a", "i", "n">>, TextSlash, <<"t", "e", "x", "t">>,
     ApplicationJson, ApplicationXml, ApplicationJavascript,
     <<"a", "p", "p", "l", "i", "c", "a", "t", "i", "o", "n", "/", "j", "s", "o", "n", "5">>,
     <<"a", "p", "p", "l", "i", "c", "a", "t", "i", "o", "n", "/", "o", "c", "t", "e", "t", "-", "s", "t", "r", "e", "a", "m">>, <<"i", "m", "a", "g", "e", "/", "p", "n", "g">>}

\* Values of the byte of interest: the ends of the three ranges of the class,
\* the tab, line feed and carriage return between them, the space, the letter
\* before 0x7F and a byte that is no ASCII character
ByteSamples == {0, 8, 9, 10, 13, 14, 31, 32, 126, 127, 128}

PlainByte == 97

\* Sizes around the sample's end, and the places of the byte of interest
BodySizes == {0, 1, SampleSize, SampleSize + 1}

Bodies ==
    {[size |-> n, at |-> 0, byte |-> PlainByte] : n \in BodySizes}
        \cup UNION {{[size |-> n, at |-> k, byte |-> b] :
                        k \in {1, SampleSize, SampleSize + 1} \cap (1..n),
                        b \in ByteSamples} : n \in BodySizes}

Files(names) ==
    [name : names, type : MediaTypes, body : Bodies,
     sampleFails : BOOLEAN, readFails : BOOLEAN]

ClassifyInit ==
    /\ pc = "input"
    /\ inputFile \in {f \in Files(FileNames) : ~f.readFails}
    /\ isText = FALSE
    /\ IdlePattern
    /\ IdleConcat
    /\ IdleStats
    /\ IdleGitHub
    /\ IdleProcess
    /\ IdleStore
    /\ IdleRules
    /\ IdleOutput
    /\ IdleBatch
    /\ IdleDebounce
    /\ IdleCollections
    /\ IdlePicker

IsTextFile ==
    /\ pc = "input"
    /\ pc' = "isTextFile"
    /\ isText' = isTextFile(inputFile)
    /\ UNCHANGED <<inputFile, patternVars, concatVars, statsVars, githubVars, processVars,
                   storeVars, rulesVars, outputVars, batchVars, debounceVars, collectionVars,
                   pickerVars>>

ClassifyNext == IsTextFile

ClassifySpec == ClassifyInit /\ [][ClassifyNext]_vars

----------------------------------------------------------------------------
(* Claims about isTextFile, ClassifySpec *)

Classified == pc = "isTextFile"

\* The part of a name after its last dot, the whole name when it has none:
\* what filename.split('.').pop() is
LastSegment(name) ==
    LET dots == {i \in 1..Len(name) : name[i] = "."}
    IN IF dots = {} THEN name
       ELSE SubSeq(name, (CHOOSE i \in dots : \A j \in dots : j <= i) + 1, Len(name))

OnAllowList(name) == toLowerCase(LastSegment(name)) \in TEXT_EXTENSIONS

TextMediaType(type) ==
    \/ Len(type) >= 5 /\ SubSeq(type, 1, 5) = TextSlash
    \/ type \in {ApplicationJson, ApplicationXml, ApplicationJavascript}

\* Is a byte of the classes 0x00-0x08, 0x0E-0x1F, 0x7F among the first 1024
SampleHasControlByte(body) ==
    /\ body.at \in 1..body.size
    /\ body.at <= 1024
    /\ \/ body.byte <= 8
       \/ body.byte >= 14 /\ body.byte <= 31
       \/ body.byte = 127

C14_DotFreeNames ==
    (/\ Classified
     /\ \A i \in 1..Len(inputFile.name) : inputFile.name[i] # "."
     /\ inputFile.type = <<>>
     /\ ~inputFile.sampleFails)
        => (isText <=> ~SampleHasControlByte(inputFile.body))

----------------------------------------------------------------------------
(* Further claims about concatenateFiles, ConcatSpec *)

\* C11: concatenateFiles returns the empty string for an empty file list under
\* every options value, includeHeaders = true included: no document header.
C11_EmptyListEmptyString ==
    (Called /\ Len(files) = 0) => output = <<>>

\* the empty list concatenated with headers asked for and a separator set
C11_Witness ==
    /\ Called
    /\ Len(files) = 0
    /\ options.includeHeaders
    /\ options.headerFormat = "comment"
    /\ options.separator = <<LF, LF>>
    /\ output = <<>>

----------------------------------------------------------------------------
(* concatenationUtils.ts: calculateTotalSize and getConcatenationStats *)

RECURSIVE calculateTotalSize(_)
calculateTotalSize(fs) ==
    IF fs = <<>> THEN 0 ELSE Head(fs).size + calculateTotalSize(Tail(fs))

\* file.content.split('\n').length counting one segment less: the lines that
\* end in a newline plus a last line only if it has characters
LineCount_NewlinesOnly(content) == Len(split(content, LF)) - 1

\* file.content.split('\n').length
LineCount(content) == Len(split(content, LF))

RECURSIVE TotalLines(_)
TotalLines(fs) ==
    IF fs = <<>> THEN 0 ELSE LineCount(Head(fs).content) + TotalLines(Tail(fs))

Unknown == <<"u", "n", "k", "n", "o", "w", "n">>

\* file.name.split('.').pop()?.toLowerCase() || 'unknown'
FileTypeOf(name) ==
    LET ext == toLowerCase(pop(split(name, "."))) IN IF ext # <<>> THEN ext ELSE Unknown

\* The reduce of lines 144-148: types[ext] = (types[ext] || 0) + 1
RECURSIVE FileTypes(_, _)
FileTypes(fs, types) ==
    IF fs = <<>> THEN types
    ELSE LET ext == FileTypeOf(Head(fs).name)
             seen == IF ext \in DOMAIN types THEN types[ext] ELSE 0
         IN FileTypes(Tail(fs),
                      [e \in DOMAIN types \cup {ext} |-> IF e = ext THEN seen + 1 ELSE types[e]])

\* Math.round rounding down: Math.floor(n / d)
MathRound_Floor(n, d) == n \div d

\* Math.round(n / d) for d > 0: the integer nearest to the quotient, the upper
\* one of the two when it lies half way
MathRound(n, d) == (2 * n + d) \div (2 * d)

getConcatenationStats(fs) ==
    LET totalSize == calculateTotalSize(fs) IN
    [fileCount |-> Len(fs),
     totalSize |-> totalSize,
     totalLines |-> TotalLines(fs),
     fileTypes |-> FileTypes(fs, <<>>),
     averageFileSize |-> IF Len(fs) > 0 THEN MathRound(totalSize, Len(fs)) ELSE 0]

----------------------------------------------------------------------------
(* getConcatenationStats as a state machine: the files are drawn in Init *)

\* Names with a listed extension in either case, without a dot, and ending in
\* a dot
StatsNames == {<<"a", ".", "c">>, <<"a", ".", "C">>, <<"x">>, <<"x", ".">>}

\* Contents of no, one and two newlines, at the end and not
StatsContents == {<<>>, <<"a">>, <<"a", LF>>, <<LF, "a">>, <<"a", LF, "a", LF>>}

\* The size field is the byte length the source of the file reported
StatsSizes == {0, 1, 2, 5}

StatsFiles == [name : StatsNames, content : StatsContents, size : StatsSizes]

StatsInit ==
    /\ pc = "input"
    /\ files \in UNION {[1..n -> StatsFiles] : n \in 0..MaxFiles}
    /\ options = [includeHeaders |-> FALSE, headerFormat |-> "none",
                  customHeaderTemplate |-> <<>>, hasTemplate |-> FALSE, separator |-> <<>>]
    /\ now = 0
    /\ output = <<>>
    /\ IdleStats
    /\ IdlePattern
    /\ IdleClassify
    /\ IdleGitHub
    /\ IdleProcess
    /\ IdleStore
    /\ IdleRules
    /\ IdleOutput
    /\ IdleBatch
    /\ IdleDebounce
    /\ IdleCollections
    /\ IdlePicker

GetConcatenationStats ==
    /\ pc = "input"
    /\ pc' = "getConcatenationStats"
    /\ stats' = getConcatenationStats(files)
    /\ UNCHANGED <<concatVars, patternVars, classifyVars, githubVars, processVars, storeVars,
                   rulesVars, outputVars, batchVars, debounceVars, collectionVars, pickerVars>>

StatsNext == GetConcatenationStats

StatsSpec == StatsInit /\ [][StatsNext]_vars

----------------------------------------------------------------------------
(* Claims about getConcatenationStats, StatsSpec *)

Computed == pc = "getConcatenationStats"

Newlines(content) == Cardinality({i \in 1..Len(content) : content[i] = LF})

RECURSIVE SumOver(_, _)
SumOver(S, f) ==
    IF S = {} THEN 0 ELSE LET i == CHOOSE k \in S : TRUE IN f[i] + SumOver(S \ {i}, f)

\* C16: totalLines is the sum over the files of 1 + the number of newline
\* characters of the content: an empty content counts 1, a content ending in
\* a newline one more than its text lines, and the empty list gives 0.
C16_TotalLines ==
    Computed =>
        stats.totalLines
            = SumOver(1..Len(files), [i \in 1..Len(files) |-> 1 + Newlines(files[i].content)])

\* an empty content beside two lines that both end in a newline: 1 + 3
C16_Witness ==
    /\ Computed
    /\ Len(files) = 2
    /\ files[1].content = <<>>
    /\ files[2].content = <<"a", LF, "a", LF>>
    /\ stats.totalLines = 4

\* C17: fileCount is the number of files, totalSize the sum of the size
\* fields, averageFileSize the integer nearest to totalSize / fileCount (the
\* upper one at a half) and 0 for the empty list, for which every metric is 0
\* and fileTypes is empty.
C17_CountSizeAverage ==
    Computed =>
        /\ stats.fileCount = Len(files)
        /\ stats.totalSize = SumOver(1..Len(files), [i \in 1..Len(files) |-> files[i].size])
        /\ Len(files) > 0 =>
              /\ 2 * stats.averageFileSize * Len(files) - Len(files) <= 2 * stats.totalSize
              /\ 2 * stats.totalSize < 2 * stats.averageFileSize * Len(files) + Len(files)
        /\ Len(files) = 0 =>
              /\ stats.averageFileSize = 0
              /\ stats.totalSize = 0
              /\ stats.totalLines = 0
              /\ DOMAIN stats.fileTypes = {}

\* sizes 1 and 2: the mean 1.5 is reported as 2
C17_Witness ==
    /\ Computed
    /\ Len(files) = 2
    /\ files[1].size = 1
    /\ files[2].size = 2
    /\ stats.totalSize = 3
    /\ stats.averageFileSize = 2

----------------------------------------------------------------------------
(* githubService.ts: GitHubService.getAllFiles.                             *)
(* The answers of GitHub to the requests of one call are inputs: whether    *)
(* the repository and the tree requests succeed and, for each item of the   *)
(* tree, what the contents request for its path gives. File contents are    *)
(* sequences of character codes here.                                       *)

MaxTreeItems == 2

textExtensions ==
    {<<".", "j", "s">>, <<".", "t", "s">>, <<".", "j", "s", "x">>,
     <<".", "t", "s", "x">>, <<".", "p", "y">>, <<".", "j", "a", "v", "a">>,
     <<".", "c">>, <<".", "c", "p", "p">>, <<".", "h">>, <<".", "h", "p", "p">>,
     <<".", "c", "s">>, <<".", "p", "h", "p">>, <<".", "r", "b">>,
     <<".", "g", "o">>, <<".", "r", "s">>, <<".", "s", "w", "i", "f", "t">>,
     <<".", "k", "t">>, <<".", "s", "c", "a", "l", "a">>, <<".", "h", "t", "m", "l">>,
     <<".", "h", "t", "m">>, <<".", "c", "s", "s">>, <<".", "s", "c", "s", "s">>,
     <<".", "s", "a", "s", "s">>, <<".", "l", "e", "s", "s">>, <<".", "j", "s", "o", "n">>,
     <<".", "x", "m", "l">>, <<".", "y", "a", "m", "l">>, <<".", "y", "m", "l">>,
     <<".", "t", "o", "m", "l">>, <<".", "i", "n", "i">>, <<".", "c", "f", "g">>,
     <<".", "m", "d">>, <<".", "t", "x", "t">>, <<".", "r", "s", "t">>,
     <<".", "t", "e", "x">>, <<".", "s", "h">>, <<".", "b", "a", "s", "h">>,
     <<".", "z", "s", "h">>, <<".", "f", "i", "s", "h">>, <<".", "p", "s", "1">>,
     <<".", "b", "a", "t">>, <<".", "c", "m", "d">>, <<".", "s", "q", "l">>,
     <<".", "g", "r", "a", "p", "h", "q", "l">>, <<".", "g", "q", "l">>,
     <<".", "d", "o", "c", "k", "e", "r", "f", "i", "l", "e">>,
     <<".", "g", "i", "t", "i", "g", "n", "o", "r", "e">>, <<".", "g", "i", "t", "a", "t", "t", "r", "i", "b", "u", "t", "e", "s">>,
     <<".", "e", "n", "v">>, <<".", "e", "x", "a", "m", "p", "l", "e">>,
     <<".", "s", "a", "m", "p", "l", "e">>}

textFilenames ==
    {<<"d", "o", "c", "k", "e", "r", "f", "i", "l", "e">>, <<"m", "a", "k", "e", "f", "i", "l", "e">>,
     <<"r", "a", "k", "e", "f", "i", "l", "e">>, <<"g", "e", "m", "f", "i", "l", "e">>,
     <<"p", "r", "o", "c", "f", "i", "l", "e">>}

\* String.prototype.lastIndexOf of one character, counted from 0; -1 if absent
lastIndexOf(s, c) ==
    LET at == {i \in 1..Len(s) : s[i] = c}
    IN IF at = {} THEN -1 ELSE (CHOOSE i \in at : \A j \in at : j <= i) - 1

\* String.prototype.substring(start): a negative start counts as 0
substring(s, start) == SubSeq(s, (IF start < 0 THEN 0 ELSE start) + 1, Len(s))

\* a || b on strings: the empty string is falsy
OrElse(a, b) == IF a # <<>> THEN a ELSE b

\* GitHubService.isTextFile(path), the private method of lines 166-184
GitHubIsTextFile(path) ==
    LET extension == substring(toLowerCase(path), lastIndexOf(path, "."))
        filename == OrElse(pop(split(toLowerCase(path), "/")), <<>>)
    IN extension \in textExtensions \/ filename \in textFilenames

Text == <<"t", "e", "x", "t">>

getFileType(path) ==
    OrElse(toLowerCase(substring(path, lastIndexOf(path, ".") + 1)), Text)

\* The UTF-8 bytes of a text of code points below 0x800
utf8(cp) == IF cp < 128 THEN <<cp>> ELSE <<192 + (cp \div 64), 128 + (cp % 64)>>

RECURSIVE Utf8Bytes(_)
Utf8Bytes(t) == IF t = <<>> THEN <<>> ELSE utf8(Head(t)) \o Utf8Bytes(Tail(t))

\* A response's content is a sequence of symbols: a run of base64 characters,
\* kept as the bytes it encodes; the line feed by which GitHub separates the
\* runs; and a character that is neither
Base64Run(bytes) == [symbol |-> "base64", bytes |-> bytes]

Newline == [symbol |-> "newline", bytes |-> <<>>]

NotBase64 == [symbol |-> "other", bytes |-> <<>>]

Base64Lines(bytes) ==
    IF bytes = <<>> THEN <<>>
    ELSE IF Len(bytes) = 1 THEN <<Base64Run(bytes)>>
    ELSE <<Base64Run(SubSeq(bytes, 1, 1)), Newline, Base64Run(SubSeq(bytes, 2, Len(bytes))),
           Newline>>

\* response.content.replace(/\n/g, '')
RemoveNewlines(s) == SelectSeq(s, LAMBDA c : c.symbol # "newline")

\* atob: one character per decoded byte; raises on a character that is not
\* base64
RECURSIVE atob(_)
atob(s) ==
    IF s = <<>> THEN [raised |-> FALSE, value |-> <<>>]
    ELSE IF Head(s).symbol # "base64" THEN [raised |-> TRUE, value |-> <<>>]
    ELSE LET rest == atob(Tail(s))
         IN IF rest.raised THEN rest
            ELSE [raised |-> FALSE, value |-> Head(s).bytes \o rest.value]

\* What the contents request for a blob gives, by kind of answer
ContentsResponse(kind, blob) ==
    CASE kind = "ok" ->
            [ok |-> TRUE, content |-> Base64Lines(Utf8Bytes(blob)), encoding |-> "base64"]
      [] kind = "error" ->
            [ok |-> FALSE, content |-> <<>>, encoding |-> "none"]
      [] kind = "notBase64" ->
            [ok |-> TRUE, content |-> <<NotBase64>>, encoding |-> "utf-8"]
      [] kind = "malformed" ->
            [ok |-> TRUE, content |-> <<Base64Run(<<97>>), NotBase64>>, encoding |-> "base64"]

\* getFileContent, lines 84-98: makeRequest raises when the response is not
\* ok; an empty content is falsy
getFileContent(response) ==
    IF ~response.ok THEN [raised |-> TRUE, value |-> <<>>]
    ELSE IF response.content # <<>> /\ response.encoding = "base64"
    THEN atob(RemoveNewlines(response.content))
    ELSE [raised |-> TRUE, value |-> <<>>]

\* The ProcessedFile of lines 142-151
GitHubProcessedFile(item, content, clock) ==
    [id |-> <<"github-", item.sha>>,
     name |-> OrElse(pop(split(item.path, "/")), item.path),
     path |-> item.path,
     content |-> content,
     size |-> IF item.size # 0 THEN item.size ELSE Len(content),
     type |-> getFileType(item.path),
     lastModified |-> clock,
     isTextFile |-> TRUE]

\* The loop of lines 130-158 from item i on, without its try and catch: the
\* first contents request that fails ends the call
RECURSIVE ProcessItems_NoCatch(_, _, _, _, _)
ProcessItems_NoCatch(fileItems, answers, blobs, i, clock) ==
    IF i > Len(fileItems) THEN [raised |-> FALSE, value |-> <<>>]
    ELSE LET item == fileItems[i]
             content == getFileContent(ContentsResponse(answers[i], blobs[item.sha]))
             rest == ProcessItems_NoCatch(fileItems, answers, blobs, i + 1, clock)
         IN IF ~GitHubIsTextFile(item.path) THEN rest
            ELSE IF content.raised \/ rest.raised THEN [raised |-> TRUE, value |-> <<>>]
            ELSE [raised |-> FALSE,
                  value |-> <<GitHubProcessedFile(item, content.value, clock)>> \o rest.value]

\* The loop of lines 130-158 from item i on: processedFiles
RECURSIVE ProcessItems(_, _, _, _, _)
ProcessItems(fileItems, answers, blobs, i, clock) ==
    IF i > Len(fileItems) THEN [raised |-> FALSE, value |-> <<>>]
    ELSE LET item == fileItems[i]
             content == getFileContent(ContentsResponse(answers[i], blobs[item.sha]))
             rest == ProcessItems(fileItems, answers, blobs, i + 1, clock)
         IN IF GitHubIsTextFile(item.path) /\ ~content.raised
            THEN [raised |-> FALSE,
                  value |-> <<GitHubProcessedFile(item, content.value, clock)>> \o rest.value]
            ELSE rest

\* The places of the blobs of a tree, in tree order
RECURSIVE BlobPlaces(_, _)
BlobPlaces(t, i) ==
    IF i > Len(t) THEN <<>>
    ELSE (IF t[i].type = "blob" THEN <<i>> ELSE <<>>) \o BlobPlaces(t, i + 1)

\* getAllFiles: answers.repository and answers.tree tell whether the two
\* first requests succeed, answers.contents[i] what the contents request for
\* the i-th item of the tree gives
getAllFiles(t, answers, blobs, clock) ==
    IF answers.repository # "ok" \/ answers.tree # "ok"
    THEN [raised |-> TRUE, value |-> <<>>]
    ELSE LET places == BlobPlaces(t, 1)
             fileItems == [k \in 1..Len(places) |-> t[places[k]]]
             fileAnswers == [k \in 1..Len(places) |-> answers.contents[places[k]]]
         IN ProcessItems(fileItems, fileAnswers, blobs, 1, clock)

----------------------------------------------------------------------------
(* getAllFiles as a state machine: the tree and GitHub's answers are drawn  *)
(* in Init                                                                  *)

\* The texts of the blobs by sha: a line, a letter that is no ASCII
\* character, and an empty file
Blobs == <<<<97, 10>>, <<233>>, <<>>>>

\* Items: a file with a listed extension, a second path with the same blob
\* and no size, a directory, a file that no rule takes for text, an empty
\* file, and a file taken for text by its name
TreeItems ==
    {[path |-> <<"a", ".", "c">>, type |-> "blob", sha |-> 1, size |-> 2],
     [path |-> <<"d", "/", "a", ".", "C">>, type |-> "blob", sha |-> 1, size |-> 0],
     [path |-> <<"d">>, type |-> "tree", sha |-> 2, size |-> 0],
     [path |-> <<"x">>, type |-> "blob", sha |-> 2, size |-> 2],
     [path |-> <<"e", ".", "c">>, type |-> "blob", sha |-> 3, size |-> 0],
     [path |-> <<"d", "/", "M", "a", "k", "e", "f", "i", "l", "e">>, type |-> "blob",
      sha |-> 2, size |-> 2]}

Trees == UNION {[1..n -> TreeItems] : n \in 0..MaxTreeItems}

RequestAnswers == {"ok", "error"}

ContentsAnswers == {"ok", "error", "notBase64", "malformed"}

GitHubInit ==
    /\ pc = "input"
    /\ tree \in Trees
    /\ responses \in UNION {[repository : RequestAnswers, tree : RequestAnswers,
                             contents : [1..n -> ContentsAnswers]] : n \in 0..MaxTreeItems}
    /\ Len(responses.contents) = Len(tree)
    /\ fetched = [raised |-> FALSE, value |-> <<>>]
    /\ IdlePattern
    /\ IdleConcat
    /\ IdleClassify
    /\ IdleStats
    /\ IdleProcess
    /\ IdleStore
    /\ IdleRules
    /\ IdleOutput
    /\ IdleBatch
    /\ IdleDebounce
    /\ IdleCollections
    /\ IdlePicker

GetAllFiles(clock) ==
    /\ pc = "input"
    /\ pc' = "getAllFiles"
    /\ fetched' = getAllFiles(tree, responses, Blobs, clock)
    /\ UNCHANGED <<tree, responses, patternVars, concatVars, classifyVars, statsVars,
                   processVars, storeVars, rulesVars, outputVars, batchVars, debounceVars,
                   collectionVars, pickerVars>>

GitHubNext == \E clock \in Clock : GetAllFiles(clock)

GitHubSpec == GitHubInit /\ [][GitHubNext]_vars

----------------------------------------------------------------------------
(* Claims about getAllFiles, GitHubSpec *)

Fetched == pc = "getAllFiles"

\* Does the contents request for item i give the whole content: the request
\* succeeds and its base64 content decodes to something
Obtained(i) ==
    /\ responses.contents[i] = "ok"
    /\ Blobs[tree[i].sha] # <<>>

\* The items getAllFiles is to return: the blobs that isTextFile takes for
\* text and whose content was obtained
Expected == {i \in 1..Len(tree) : tree[i].type = "blob" /\ GitHubIsTextFile(tree[i].path)
                                     /\ Obtained(i)}

----------------------------------------------------------------------------
(* fileUtils.ts: processFile and processFiles.                              *)
(* processFiles starts one processFile per file; each awaits isTextFile and *)
(* then file.text(), and the calls advance in any order. Promise.all        *)
(* settles when all of them have.                                           *)

MaxUploads == 3

\* generateId: a string no earlier call returned; the n-th call gives n
generateId(calls) == <<"id", calls + 1>>

\* The ProcessedFile of lines 72-81; path is file.webkitRelativePath ||
\* file.name, the relative path being empty for the files of an upload
NewProcessedFile(f, id) ==
    [id |-> id, name |-> f.name, path |-> OrElse(<<>>, f.name), content |-> text(f.body),
     size |-> f.body.size, type |-> f.type, isTextFile |-> TRUE]

Failure == [success |-> FALSE, file |-> <<>>]

Success(processedFile) == [success |-> TRUE, file |-> processedFile]

\* Promise.all giving the values in the order the promises settled
PromiseAll_SettlingOrder(done, n) == [k \in 1..n |-> done[k].result]

\* Promise.all: the values of the promises in the order of the promises
PromiseAll(done, n) ==
    [i \in 1..n |-> done[CHOOSE k \in 1..Len(done) : done[k].index = i].result]

\* results.filter(result => result.success && result.file).map(result => result.file!)
RECURSIVE SuccessfulFiles(_)
SuccessfulFiles(results) ==
    IF results = <<>> THEN <<>>
    ELSE (IF Head(results).success THEN <<Head(results).file>> ELSE <<>>)
            \o SuccessfulFiles(Tail(results))

\* The number of generateId calls made so far: one per successful result
IdsGenerated(done) == Cardinality({k \in 1..Len(done) : done[k].result.success})

----------------------------------------------------------------------------
(* processFiles as a state machine *)

\* Files of distinct names: text by its extension; binary by a NUL byte; text
\* by its bytes; one whose sample cannot be read; one with a listed extension
\* whose content cannot be read
UploadSamples ==
    {[name |-> <<"a", ".", "c">>, type |-> <<>>,
      body |-> [size |-> 1, at |-> 0, byte |-> PlainByte],
      sampleFails |-> FALSE, readFails |-> FALSE],
     [name |-> <<"b", ".", "x">>, type |-> <<>>,
      body |-> [size |-> 1, at |-> 1, byte |-> 0],
      sampleFails |-> FALSE, readFails |-> FALSE],
     [name |-> <<"x">>, type |-> <<>>,
      body |-> [size |-> SampleSize + 1, at |-> SampleSize + 1, byte |-> 0],
      sampleFails |-> FALSE, readFails |-> FALSE],
     [name |-> <<"d", ".", "x">>, type |-> <<>>,
      body |-> [size |-> 1, at |-> 0, byte |-> PlainByte],
      sampleFails |-> TRUE, readFails |-> FALSE],
     [name |-> <<"e", ".", "c">>, type |-> <<>>,
      body |-> [size |-> 1, at |-> 0, byte |-> PlainByte],
      sampleFails |-> FALSE, readFails |-> TRUE]}

ProcessInit ==
    /\ pc = "processFiles"
    /\ uploads \in UNION {[1..n -> UploadSamples] : n \in 0..MaxUploads}
    /\ tasks = [i \in 1..Len(uploads) |-> "isTextFile"]
    /\ settled = <<>>
    /\ processed = [settled |-> FALSE, raised |-> FALSE, value |-> <<>>]
    /\ IdlePattern
    /\ IdleConcat
    /\ IdleClassify
    /\ IdleStats
    /\ IdleGitHub
    /\ IdleStore
    /\ IdleRules
    /\ IdleOutput
    /\ IdleBatch
    /\ IdleDebounce
    /\ IdleCollections
    /\ IdlePicker

\* processFile(files[i]) resumes after `await isTextFile(file)`, lines 61-68
Classify(i) ==
    /\ pc = "processFiles"
    /\ tasks[i] = "isTextFile"
    /\ IF isTextFile(uploads[i])
       THEN /\ tasks' = [tasks EXCEPT ![i] = "text"]
            /\ UNCHANGED settled
       ELSE /\ tasks' = [tasks EXCEPT ![i] = "settled"]
            /\ settled' = Append(settled, [index |-> i, result |-> Failure])
    /\ UNCHANGED <<pc, uploads, processed>>
    /\ UNCHANGED <<patternVars, concatVars, classifyVars, statsVars, githubVars, storeVars,
                   rulesVars, outputVars, batchVars, debounceVars, collectionVars, pickerVars>>

\* processFile(files[i]) resumes after `await file.text()`, lines 70-92: the
\* read gave the content, or it failed and the catch returns the failure
ReadText(i) ==
    /\ pc = "processFiles"
    /\ tasks[i] = "text"
    /\ tasks' = [tasks EXCEPT ![i] = "settled"]
    /\ settled' = Append(settled,
                         [index |-> i,
                          result |-> IF uploads[i].readFails THEN Failure
                                     ELSE Success(NewProcessedFile(uploads[i],
                                                    generateId(IdsGenerated(settled))))])
    /\ UNCHANGED <<pc, uploads, processed>>
    /\ UNCHANGED <<patternVars, concatVars, classifyVars, statsVars, githubVars, storeVars,
                   rulesVars, outputVars, batchVars, debounceVars, collectionVars, pickerVars>>

\* processFiles resumes after `await Promise.all(...)`, lines 99-102
ProcessFilesReturns ==
    /\ pc = "processFiles"
    /\ Len(settled) = Len(uploads)
    /\ pc' = "processed"
    /\ processed' = [settled |-> TRUE, raised |-> FALSE,
                     value |-> SuccessfulFiles(PromiseAll(settled, Len(uploads)))]
    /\ UNCHANGED <<uploads, tasks, settled>>
    /\ UNCHANGED <<patternVars, concatVars, classifyVars, statsVars, githubVars, storeVars,
                   rulesVars, outputVars, batchVars, debounceVars, collectionVars, pickerVars>>

ProcessNext ==
    \/ \E i \in 1..Len(uploads) : Classify(i)
    \/ \E i \in 1..Len(uploads) : ReadText(i)
    \/ ProcessFilesReturns

ProcessSpec == ProcessInit /\ [][ProcessNext]_vars

----------------------------------------------------------------------------
(* Claims about processFiles, ProcessSpec *)

\* The files processFiles is to accept: text by isTextFile and readable
Accepted == {i \in 1..Len(uploads) : isTextFile(uploads[i]) /\ ~uploads[i].readFails}

\* C19: processFiles never rejects, and what it returns are the accepted files
\* of its input, each once and in input order, whatever the order in which
\* the per-file calls settled; binary files and files whose read fails are
\* left out.
C19_InputOrder ==
    processed.settled =>
        /\ ~processed.raised
        /\ Len(processed.value) = Cardinality(Accepted)
        /\ \E place \in [1..Len(processed.value) -> Accepted] :
              /\ \A k, l \in 1..Len(processed.value) : k < l => place[k] < place[l]
              /\ \A k \in 1..Len(processed.value) :
                    processed.value[k].name = uploads[place[k]].name

\* three files, the first and the last accepted and settled last and first,
\* a binary one between them
C19_Witness ==
    /\ processed.settled
    /\ Len(uploads) = 3
    /\ Accepted = {1, 3}
    /\ uploads[1].name # uploads[3].name
    /\ ~isTextFile(uploads[2])
    /\ settled[1].index = 3
    /\ settled[3].index = 1
    /\ Len(processed.value) = 2
    /\ processed.value[1].name = uploads[1].name

----------------------------------------------------------------------------
(* useAppStore.ts: the store. Its file, selection and collection actions    *)
(* as functions of the state they read; an optional value is <<>> when      *)
(* undefined and <<v>> otherwise.                                           *)

MaxSteps == 4

addFiles(current, new) == current \o new

\* removeFile leaving the selection as it is
removeFile_KeepSelection(current, selected, preview, id) ==
    [currentFiles |-> SelectSeq(current, LAMBDA f : f.id # id),
     selectedFiles |-> selected,
     previewFile |-> IF preview # <<>> /\ preview[1].id = id THEN <<>> ELSE preview]

removeFile(current, selected, preview, id) ==
    [currentFiles |-> SelectSeq(current, LAMBDA f : f.id # id),
     selectedFiles |-> SelectSeq(selected, LAMBDA fileId : fileId # id),
     previewFile |-> IF preview # <<>> /\ preview[1].id = id THEN <<>> ELSE preview]

clearFiles == [currentFiles |-> <<>>, selectedFiles |-> <<>>, previewFile |-> <<>>]

toggleFileSelection(selected, id) ==
    IF \E i \in 1..Len(selected) : selected[i] = id
    THEN SelectSeq(selected, LAMBDA fileId : fileId # id)
    ELSE Append(selected, id)

selectAllFiles(current) == [i \in 1..Len(current) |-> current[i].id]

\* collectionService.saveCollection: db.collections.add gives the next key
\* of the ++id schema, which is never one given before
NextKey(table) == Len(table) + 1

\* The rows of the table from key k down
RECURSIVE RowsFrom(_, _)
RowsFrom(table, k) == IF k = 0 THEN <<>> ELSE table[k] \o RowsFrom(table, k - 1)

\* collectionService.getAllCollections that finds nothing
getAllCollections_Empty(table) == <<>>

\* collectionService.getAllCollections: orderBy('updatedAt').reverse(); the
\* collections are never updated, so the latest key comes first
getAllCollections(table) == RowsFrom(table, Len(table))

\* collectionService.loadCollection: db.collections.get(id), <<>> for
\* undefined
loadCollection(table, id) == IF id \in DOMAIN table THEN table[id] ELSE <<>>

\* collectionService.deleteCollection: db.collections.delete(id)
deleteCollection(table, id) == [key \in DOMAIN table |-> IF key = id THEN <<>> ELSE table[key]]

----------------------------------------------------------------------------
(* The store as a state machine: the operations of the components, each one *)
(* step, the asynchronous ones one step per await.                          *)

FileIds(current) == {current[i].id : i \in 1..Len(current)}

\* The files an upload gives: processFiles on one or two text files
UploadedFile == [name |-> <<"u", ".", "c">>, type |-> <<>>,
                 body |-> [size |-> 1, at |-> 0, byte |-> PlainByte],
                 sampleFails |-> FALSE, readFails |-> FALSE]

UploadResult(n, calls) == [i \in 1..n |-> NewProcessedFile(UploadedFile, generateId(calls + i - 1))]

\* The repository a fetch reads: two paths holding the same blob
StoreTree ==
    <<[path |-> <<"a", ".", "c">>, type |-> "blob", sha |-> 1, size |-> 2],
      [path |-> <<"d", "/", "a", ".", "C">>, type |-> "blob", sha |-> 1, size |-> 0]>>

\* A collection saved by an earlier session
StoredCollection ==
    [id |-> 1, name |-> <<"n">>,
     files |-> <<NewProcessedFile(UploadedFile, <<"id", 0>>)>>,
     excludePatterns |-> <<[id |-> 1, type |-> "extension", pattern |-> <<"c">>,
                            enabled |-> TRUE]>>,
     settings |-> [includeHeaders |-> FALSE, headerFormat |-> "markdown",
                   sortBy |-> "size", sortOrder |-> "desc"]]

StoreInit ==
    /\ pc = "store"
    /\ currentFiles = <<>>
    /\ excludePatterns = <<>>
    /\ collections = <<>>
    /\ activeCollectionId = <<>>
    /\ selectedFiles = <<>>
    /\ previewFile = <<>>
    /\ settings = [includeHeaders |-> TRUE, headerFormat |-> "comment",
                   sortBy |-> "name", sortOrder |-> "asc"]
    /\ db \in {<<>>, <<<<StoredCollection>>>>}
    /\ saving = <<>>
    /\ loading = <<>>
    /\ generated = 0
    /\ storeArg = <<>>
    /\ steps = MaxSteps
    /\ IdlePattern
    /\ IdleConcat
    /\ IdleClassify
    /\ IdleStats
    /\ IdleGitHub
    /\ IdleProcess
    /\ IdleRules
    /\ IdleOutput
    /\ IdleBatch
    /\ IdleDebounce
    /\ IdleCollections
    /\ IdlePicker

otherVars == <<patternVars, concatVars, classifyVars, statsVars, githubVars, processVars>>

Step(name, argument) ==
    /\ steps > 0
    /\ steps' = steps - 1
    /\ pc' = name
    /\ storeArg' = argument
    /\ UNCHANGED otherVars

\* FileList.handleFiles: addFiles(await processFiles(files)) when some file
\* was accepted
AddUploaded(n) ==
    /\ Step("addFiles", <<>>)
    /\ currentFiles' = addFiles(currentFiles, UploadResult(n, generated))
    /\ generated' = generated + n
    /\ UNCHANGED <<excludePatterns, collections, activeCollectionId, selectedFiles,
                   previewFile, settings, db, saving, loading, rulesVars, outputVars,
                   batchVars, debounceVars, collectionVars, pickerVars>>

\* GitHubPicker.handleFetchRepository: addFiles(await getAllFiles(...)) when
\* the call gave some file
AddFetched(answers, clock) ==
    LET result == getAllFiles(StoreTree, answers, Blobs, clock) IN
    /\ Step("addFiles", <<>>)
    /\ ~result.raised
    /\ result.value # <<>>
    /\ currentFiles' = addFiles(currentFiles, result.value)
    /\ UNCHANGED <<excludePatterns, collections, activeCollectionId, selectedFiles,
                   previewFile, settings, db, saving, loading, generated, rulesVars,
                   outputVars, batchVars, debounceVars, collectionVars, pickerVars>>

RemoveFile(id) ==
    LET after == removeFile(currentFiles, selectedFiles, previewFile, id) IN
    /\ Step("removeFile", id)
    /\ currentFiles' = after.currentFiles
    /\ selectedFiles' = after.selectedFiles
    /\ previewFile' = after.previewFile
    /\ UNCHANGED <<excludePatterns, collections, activeCollectionId, settings, db, saving,
                   loading, generated, rulesVars, outputVars, batchVars, debounceVars,
                   collectionVars, pickerVars>>

ClearFiles ==
    /\ Step("clearFiles", <<>>)
    /\ currentFiles' = clearFiles.currentFiles
    /\ selectedFiles' = clearFiles.selectedFiles
    /\ previewFile' = clearFiles.previewFile
    /\ UNCHANGED <<excludePatterns, collections, activeCollectionId, settings, db, saving,
                   loading, generated, rulesVars, outputVars, batchVars, debounceVars,
                   collectionVars, pickerVars>>

ToggleFileSelection(id) ==
    /\ Step("toggleFileSelection", id)
    /\ selectedFiles' = toggleFileSelection(selectedFiles, id)
    /\ UNCHANGED <<currentFiles, excludePatterns, collections, activeCollectionId,
                   previewFile, settings, db, saving, loading, generated, rulesVars,
                   outputVars, batchVars, debounceVars, collectionVars, pickerVars>>

SelectAllFiles ==
    /\ Step("selectAllFiles", <<>>)
    /\ selectedFiles' = selectAllFiles(currentFiles)
    /\ UNCHANGED <<currentFiles, excludePatterns, collections, activeCollectionId,
                   previewFile, settings, db, saving, loading, generated, rulesVars,
                   outputVars, batchVars, debounceVars, collectionVars, pickerVars>>

ClearSelection ==
    /\ Step("clearSelection", <<>>)
    /\ selectedFiles' = <<>>
    /\ UNCHANGED <<currentFiles, excludePatterns, collections, activeCollectionId,
                   previewFile, settings, db, saving, loading, generated, rulesVars,
                   outputVars, batchVars, debounceVars, collectionVars, pickerVars>>

\* FileList.handlePreview: setPreviewFile(previewFile?.id === file.id ?
\* undefined : file)
SetPreviewFile(f) ==
    /\ Step("setPreviewFile", f.id)
    /\ previewFile' = IF previewFile # <<>> /\ previewFile[1].id = f.id THEN <<>> ELSE <<f>>
    /\ UNCHANGED <<currentFiles, excludePatterns, collections, activeCollectionId,
                   selectedFiles, settings, db, saving, loading, generated, rulesVars,
                   outputVars, batchVars, debounceVars, collectionVars, pickerVars>>

\* saveCurrentAsCollection up to its first await: get() and the call of
\* collectionService.saveCollection
SaveCurrentAsCollection(name) ==
    /\ Step("saveCurrentAsCollection", name)
    /\ saving' = Append(saving, [awaits |-> "saveCollection", name |-> name,
                                 files |-> currentFiles, excludePatterns |-> excludePatterns,
                                 settings |-> settings, id |-> 0])
    /\ UNCHANGED <<currentFiles, excludePatterns, collections, activeCollectionId,
                   selectedFiles, previewFile, settings, db, loading, generated, rulesVars,
                   outputVars, batchVars, debounceVars, collectionVars, pickerVars>>

Without(q, k) == SubSeq(q, 1, k - 1) \o SubSeq(q, k + 1, Len(q))

\* db.collections.add settles: the collection is stored and the call goes on
\* to getAllCollections, or the add failed, the catch logs it and the
\* promise of the call resolves
SaveCollectionSettles(k, ok) ==
    /\ saving[k].awaits = "saveCollection"
    /\ Step(IF ok THEN "saveCollection" ELSE "saveCurrentAsCollection resolved",
            [persisted |-> FALSE, listed |-> FALSE, id |-> 0])
    /\ IF ok
       THEN LET id == NextKey(db) IN
            /\ db' = Append(db, <<[id |-> id, name |-> saving[k].name,
                                   files |-> saving[k].files,
                                   excludePatterns |-> saving[k].excludePatterns,
                                   settings |-> saving[k].settings]>>)
            /\ saving' = [saving EXCEPT ![k].awaits = "getAllCollections", ![k].id = id]
       ELSE /\ saving' = Without(saving, k)
            /\ UNCHANGED db
    /\ UNCHANGED <<currentFiles, excludePatterns, collections, activeCollectionId,
                   selectedFiles, previewFile, settings, loading, generated, rulesVars,
                   outputVars, batchVars, debounceVars, collectionVars, pickerVars>>

\* getAllCollections settles: set({collections, activeCollectionId: id}), or
\* it failed and the catch logs it; the promise of the call resolves
SaveListingSettles(k, ok) ==
    /\ saving[k].awaits = "getAllCollections"
    /\ Step("saveCurrentAsCollection resolved",
            [persisted |-> TRUE, listed |-> ok, id |-> saving[k].id])
    /\ saving' = Without(saving, k)
    /\ IF ok
       THEN /\ collections' = getAllCollections(db)
            /\ activeCollectionId' = <<saving[k].id>>
       ELSE UNCHANGED <<collections, activeCollectionId>>
    /\ UNCHANGED <<currentFiles, excludePatterns, selectedFiles, previewFile, settings, db,
                   loading, generated, rulesVars, outputVars, batchVars, debounceVars,
                   collectionVars, pickerVars>>

\* loadAllCollections, called when CollectionManager mounts
LoadAllCollections ==
    /\ Step("loadAllCollections", <<>>)
    /\ collections' = getAllCollections(db)
    /\ UNCHANGED <<currentFiles, excludePatterns, activeCollectionId, selectedFiles,
                   previewFile, settings, db, saving, loading, generated, rulesVars,
                   outputVars, batchVars, debounceVars, collectionVars, pickerVars>>

\* loadCollection(id) up to its await, for a collection of the list
LoadCollection(id) ==
    /\ Step("loadCollection", id)
    /\ loading' = Append(loading, id)
    /\ UNCHANGED <<currentFiles, excludePatterns, collections, activeCollectionId,
                   selectedFiles, previewFile, settings, db, saving, generated, rulesVars,
                   outputVars, batchVars, debounceVars, collectionVars, pickerVars>>

\* collectionService.loadCollection settles: the collection replaces the
\* working set, the rules and the settings; nothing happens when there is
\* none, or when the read failed and the catch logs it; the promise of the
\* call resolves
LoadCollectionSettles(k, ok) ==
    LET collection == loadCollection(db, loading[k]) IN
    /\ Step("loadCollection resolved", loading[k])
    /\ loading' = Without(loading, k)
    /\ IF ok /\ collection # <<>>
       THEN /\ currentFiles' = collection[1].files
            /\ excludePatterns' = collection[1].excludePatterns
            /\ settings' = collection[1].settings
            /\ activeCollectionId' = <<loading[k]>>
            /\ selectedFiles' = <<>>
            /\ previewFile' = <<>>
       ELSE UNCHANGED <<currentFiles, excludePatterns, settings, activeCollectionId,
                        selectedFiles, previewFile>>
    /\ UNCHANGED <<collections, db, saving, generated, rulesVars, outputVars, batchVars,
                   debounceVars, collectionVars, pickerVars>>

CollectionNames == {<<"n">>}

StoreNext ==
    \/ \E n \in 1..2 : AddUploaded(n)
    \/ \E answers \in [repository : {"ok"}, tree : {"ok"},
                       contents : [1..Len(StoreTree) -> {"ok", "error"}]] :
          \E clock \in Clock : AddFetched(answers, clock)
    \/ \E id \in FileIds(currentFiles) : RemoveFile(id)
    \/ ClearFiles
    \/ \E id \in FileIds(currentFiles) : ToggleFileSelection(id)
    \/ SelectAllFiles
    \/ ClearSelection
    \/ \E i \in 1..Len(currentFiles) : SetPreviewFile(currentFiles[i])
    \/ \E name \in CollectionNames : SaveCurrentAsCollection(name)
    \/ \E k \in 1..Len(saving), ok \in BOOLEAN : SaveCollectionSettles(k, ok)
    \/ \E k \in 1..Len(saving), ok \in BOOLEAN : SaveListingSettles(k, ok)
    \/ LoadAllCollections
    \/ \E i \in 1..Len(collections) : LoadCollection(collections[i].id)
    \/ \E k \in 1..Len(loading), ok \in BOOLEAN : LoadCollectionSettles(k, ok)

StoreSpec == StoreInit /\ [][StoreNext]_vars

----------------------------------------------------------------------------
(* Claims about the store, StoreSpec *)

\* C15: in every reachable state of the working set no two files have the
\* same id.
C15_UniqueIds ==
    \A i, j \in 1..Len(currentFiles) : i # j => currentFiles[i].id # currentFiles[j].id

\* Every selected id is the id of a file of the working set, and the preview
\* file, if any, is a file of the working set
Consistent ==
    /\ \A k \in 1..Len(selectedFiles) : selectedFiles[k] \in FileIds(currentFiles)
    /\ previewFile # <<>> => \E i \in 1..Len(currentFiles) : currentFiles[i] = previewFile[1]

\* C20: from a consistent state removeFile(id) leaves no file of that id in
\* the working set and the id out of the selection; the preview is undefined
\* if it had that id and unchanged otherwise; the other files and selected
\* ids stay, in their order, and so do the rules and the settings.
\* clearFiles leaves the working set, the selection and the preview empty.
C20_RemoveAndClear ==
    [][/\ (pc' = "removeFile" /\ Consistent) =>
            /\ storeArg' \notin FileIds(currentFiles')
            /\ \A k \in 1..Len(selectedFiles') : selectedFiles'[k] # storeArg'
            /\ previewFile' = IF previewFile # <<>> /\ previewFile[1].id = storeArg'
                              THEN <<>> ELSE previewFile
            /\ currentFiles' = SelectSeq(currentFiles, LAMBDA f : f.id # storeArg')
            /\ selectedFiles' = SelectSeq(selectedFiles, LAMBDA x : x # storeArg')
            /\ excludePatterns' = excludePatterns
            /\ settings' = settings
       /\ pc' = "clearFiles" =>
            /\ currentFiles' = <<>>
            /\ selectedFiles' = <<>>
            /\ previewFile' = <<>>]_vars

\* a selected file was removed; another file stays, selected and previewed
C20_Witness ==
    /\ pc = "removeFile"
    /\ Len(currentFiles) = 1
    /\ storeArg # currentFiles[1].id
    /\ generated = 2
    /\ selectedFiles = <<currentFiles[1].id>>
    /\ previewFile = <<currentFiles[1]>>

----------------------------------------------------------------------------
(* useAppStore.ts: the rule operations of the store, and the rules the      *)
(* ExcludePatterns component gives them. RulesSpec performs them in every   *)
(* order and keeps the list after each one.                                 *)

\* patternUtils.createPattern: the id is made of the time and a random part,
\* here the number of the call
createPattern(pattern, type, calls) ==
    [id |-> <<"pattern-", calls + 1>>, type |-> type, pattern |-> pattern, enabled |-> TRUE]

addExcludePattern(rules, pattern) == rules \o <<pattern>>

removeExcludePattern(rules, id) == SelectSeq(rules, LAMBDA pattern : pattern.id # id)

\* toggleExcludePattern that disables the rule
toggleExcludePattern_Disable(rules, id) ==
    [i \in 1..Len(rules) |->
        IF rules[i].id = id THEN [rules[i] EXCEPT !.enabled = FALSE] ELSE rules[i]]

toggleExcludePattern(rules, id) ==
    [i \in 1..Len(rules) |->
        IF rules[i].id = id THEN [rules[i] EXCEPT !.enabled = ~rules[i].enabled] ELSE rules[i]]

\* What the user types into the pattern field, and the kinds the select offers
NewPatterns == {<<"a">>, <<" ", "a">>, <<"*">>, <<" ">>}

SelectableTypes == {"path", "extension", "glob"}

RulesInit ==
    /\ pc = "store"
    /\ currentFiles = <<>>
    /\ excludePatterns = <<>>
    /\ collections = <<>>
    /\ activeCollectionId = <<>>
    /\ selectedFiles = <<>>
    /\ previewFile = <<>>
    /\ settings = [includeHeaders |-> TRUE, headerFormat |-> "comment",
                   sortBy |-> "name", sortOrder |-> "asc"]
    /\ db = <<>>
    /\ saving = <<>>
    /\ loading = <<>>
    /\ generated = 0
    /\ storeArg = <<>>
    /\ steps = MaxSteps
    /\ created = 0
    /\ ruleOps = <<>>
    /\ ruleLists = <<excludePatterns>>
    /\ IdlePattern
    /\ IdleConcat
    /\ IdleClassify
    /\ IdleStats
    /\ IdleGitHub
    /\ IdleProcess
    /\ IdleOutput
    /\ IdleBatch
    /\ IdleDebounce
    /\ IdleCollections
    /\ IdlePicker

RuleStep(name, id) ==
    /\ Step(name, id)
    /\ ruleOps' = Append(ruleOps, [name |-> name, id |-> id])
    /\ ruleLists' = Append(ruleLists, excludePatterns')
    /\ UNCHANGED <<currentFiles, collections, activeCollectionId, selectedFiles, previewFile,
                   settings, db, saving, loading, generated, outputVars, batchVars,
                   debounceVars, collectionVars, pickerVars>>

\* ExcludePatterns.handleAddPattern: nothing is added when the field is blank
\* or validatePattern rejects it
HandleAddPattern(newPattern, patternType) ==
    LET pattern == createPattern(trim(newPattern), patternType, created) IN
    /\ trim(newPattern) # <<>>
    /\ validatePattern(newPattern, patternType).valid
    /\ excludePatterns' = addExcludePattern(excludePatterns, pattern)
    /\ created' = created + 1
    /\ RuleStep("addExcludePattern", pattern.id)

RemoveExcludePattern(id) ==
    /\ excludePatterns' = removeExcludePattern(excludePatterns, id)
    /\ UNCHANGED created
    /\ RuleStep("removeExcludePattern", id)

ToggleExcludePattern(id) ==
    /\ excludePatterns' = toggleExcludePattern(excludePatterns, id)
    /\ UNCHANGED created
    /\ RuleStep("toggleExcludePattern", id)

\* The ids given so far
CreatedIds == {<<"pattern-", k>> : k \in 1..created}

RulesNext ==
    \/ \E newPattern \in NewPatterns, patternType \in SelectableTypes :
          HandleAddPattern(newPattern, patternType)
    \/ \E id \in CreatedIds : RemoveExcludePattern(id)
    \/ \E id \in CreatedIds : ToggleExcludePattern(id)

RulesSpec == RulesInit /\ [][RulesNext]_vars

----------------------------------------------------------------------------
(* Claims about the rule operations, RulesSpec *)

\* The operations of a name performed so far
OpsNamed(name) == {k \in 1..Len(ruleOps) : ruleOps[k].name = name}

\* The rule the k-th operation added, as it was added
AddedRule(k) == ruleLists[k + 1][Len(ruleLists[k + 1])]

\* The rules added and not removed, in the order they were added
RECURSIVE Surviving(_)
Surviving(k) ==
    IF k > Len(ruleOps) THEN <<>>
    ELSE IF /\ ruleOps[k].name = "addExcludePattern"
            /\ \A j \in OpsNamed("removeExcludePattern") : ruleOps[j].id # ruleOps[k].id
         THEN <<AddedRule(k)>> \o Surviving(k + 1)
         ELSE Surviving(k + 1)

\* C21: after any sequence of addExcludePattern, removeExcludePattern and
\* toggleExcludePattern the list is the rules added and not removed, in the
\* order they were added, each as it was added but for its enabled flag;
\* toggleExcludePattern(id) changes the enabled flag of the rule of that id
\* and nothing else, and two of them in a row on one id restore the list.
C21_RuleList ==
    /\ Len(excludePatterns) = Len(Surviving(1))
    /\ \A i \in 1..Len(excludePatterns) :
          excludePatterns[i] = [Surviving(1)[i] EXCEPT !.enabled = excludePatterns[i].enabled]
    /\ \A k \in OpsNamed("toggleExcludePattern") :
          /\ Len(ruleLists[k + 1]) = Len(ruleLists[k])
          /\ \A i \in 1..Len(ruleLists[k]) :
                ruleLists[k + 1][i] =
                    IF ruleLists[k][i].id = ruleOps[k].id
                    THEN [ruleLists[k][i] EXCEPT !.enabled = ~ruleLists[k][i].enabled]
                    ELSE ruleLists[k][i]
          /\ (k + 1 \in OpsNamed("toggleExcludePattern") /\ ruleOps[k + 1].id = ruleOps[k].id)
                => ruleLists[k + 2] = ruleLists[k]

\* two rules were added, the first was toggled twice with the second in the
\* list
C21_Witness ==
    /\ Len(ruleOps) = 4
    /\ ruleOps[3] = [name |-> "toggleExcludePattern", id |-> <<"pattern-", 1>>]
    /\ ruleOps[4] = ruleOps[3]
    /\ Len(excludePatterns) = 2
    /\ excludePatterns[1].enabled
    /\ ~ruleLists[4][1].enabled

----------------------------------------------------------------------------
(* OutputPanel.tsx and ExportOptions.tsx: what the application makes of the *)
(* working set, the rules and the settings of the store.                    *)

\* OutputPanel.filteredFiles
filteredFiles(current, rules) ==
    SelectSeq(current, LAMBDA f : ~shouldExclude(f.path, rules).shouldExclude)

\* getDefaultConcatenationOptions
DefaultSeparator == <<LF, LF>>

\* OutputPanel.concatenatedOutput; the settings of the store hold no
\* customHeaderTemplate
concatenatedOutput(filtered, current, clock) ==
    IF Len(filtered) = 0 THEN <<>>
    ELSE concatenateFiles(filtered,
                          [includeHeaders |-> current.includeHeaders,
                           headerFormat |-> current.headerFormat,
                           hasTemplate |-> FALSE, customHeaderTemplate |-> <<>>,
                           separator |-> DefaultSeparator],
                          clock)

\* ExportOptions.getFilteredFiles
getFilteredFiles(current) == SelectSeq(current, LAMBDA f : f.isTextFile)

NoExport ==
    [alerted |-> FALSE, format |-> "plain", concatenated |-> <<>>, fileCount |-> 0,
     totalSize |-> 0, excludePatterns |-> <<>>, files |-> <<>>, filteredFiles |-> <<>>]

\* ExportOptions.generateExport up to the call of format.template: the
\* concatenated text and the metadata the template is given. The plain
\* template returns the text; the others frame the text or metadata.files.
generateExport(current, rules, format, includeMetadata, clock) ==
    LET filtered == getFilteredFiles(current) IN
    IF Len(filtered) = 0 THEN [NoExport EXCEPT !.alerted = TRUE, !.format = format]
    ELSE [alerted |-> FALSE,
          format |-> format,
          concatenated |-> concatenateFiles(filtered,
                              [includeHeaders |-> TRUE,
                               headerFormat |-> IF format = "markdown" THEN "markdown"
                                                ELSE "comment",
                               hasTemplate |-> FALSE, customHeaderTemplate |-> <<>>,
                               separator |-> DefaultSeparator],
                              clock),
          fileCount |-> Len(filtered),
          totalSize |-> calculateTotalSize(filtered),
          excludePatterns |-> SelectSeq(rules, LAMBDA p : p.enabled),
          files |-> IF includeMetadata THEN filtered ELSE <<>>,
          filteredFiles |-> filtered]

updateSettings(current, field, value) == [current EXCEPT ![field] = value]

EXPORT_FORMATS == {"plain", "markdown", "json", "html", "xml"}

\* The files of the working set: their orders by name, by path, by size and
\* by modification time differ
WorkingFiles ==
    {[id |-> <<"id", 1>>, name |-> <<"b">>, path |-> <<"b">>, content |-> <<"x">>,
      size |-> 1, type |-> <<>>, lastModified |-> 2, isTextFile |-> TRUE],
     [id |-> <<"id", 2>>, name |-> <<"a", ".", "c">>, path |-> <<"d", "/", "a", ".", "c">>,
      content |-> <<"y", "y">>, size |-> 2, type |-> <<>>, lastModified |-> 1,
      isTextFile |-> TRUE]}

\* The working sets of up to MaxFiles of these files, each file once
WorkingSets ==
    {fs \in UNION {[1..n -> WorkingFiles] : n \in 0..MaxFiles} :
        \A i, j \in 1..Len(fs) : i # j => fs[i] # fs[j]}

OutputRules ==
    {<<>>,
     <<createPattern(<<"c">>, "extension", 0)>>,
     <<[createPattern(<<"c">>, "extension", 0) EXCEPT !.enabled = FALSE]>>,
     <<createPattern(<<"b">>, "path", 0)>>}

SortKeys == {"name", "path", "size", "modified"}

SortOrders == {"asc", "desc"}

OutputInit ==
    /\ pc = "output"
    /\ currentFiles \in WorkingSets
    /\ excludePatterns \in OutputRules
    /\ settings \in [includeHeaders : BOOLEAN, headerFormat : {"comment", "markdown"},
                     sortBy : SortKeys, sortOrder : SortOrders]
    /\ collections = <<>>
    /\ activeCollectionId = <<>>
    /\ selectedFiles = <<>>
    /\ previewFile = <<>>
    /\ db = <<>>
    /\ saving = <<>>
    /\ loading = <<>>
    /\ generated = 0
    /\ storeArg = <<>>
    /\ steps = 0
    /\ IdleOutput
    /\ IdleRules
    /\ IdlePattern
    /\ IdleConcat
    /\ IdleClassify
    /\ IdleStats
    /\ IdleGitHub
    /\ IdleProcess
    /\ IdleBatch
    /\ IdleDebounce
    /\ IdleCollections
    /\ IdlePicker

\* OutputPanel renders: the preview, and what copy and download take
Render(clock) ==
    LET filtered == filteredFiles(currentFiles, excludePatterns) IN
    /\ pc' = "render"
    /\ shown' = [files |-> filtered, output |-> concatenatedOutput(filtered, settings, clock)]
    /\ UNCHANGED <<exported, storeVars, rulesVars, batchVars, debounceVars, collectionVars,
                   pickerVars>>
    /\ UNCHANGED otherVars

GenerateExport(format, includeMetadata, clock) ==
    /\ pc' = "generateExport"
    /\ exported' = generateExport(currentFiles, excludePatterns, format, includeMetadata, clock)
    /\ UNCHANGED <<shown, storeVars, rulesVars, batchVars, debounceVars, collectionVars,
                   pickerVars>>
    /\ UNCHANGED otherVars

UpdateSettings(field, value) ==
    /\ pc' = "updateSettings"
    /\ settings' = updateSettings(settings, field, value)
    /\ UNCHANGED <<currentFiles, excludePatterns, collections, activeCollectionId,
                   selectedFiles, previewFile, db, saving, loading, generated, storeArg,
                   steps, rulesVars, outputVars, batchVars, debounceVars, collectionVars,
                   pickerVars>>
    /\ UNCHANGED otherVars

OutputNext ==
    \/ \E clock \in Clock : Render(clock)
    \/ \E format \in EXPORT_FORMATS, includeMetadata \in BOOLEAN, clock \in Clock :
          GenerateExport(format, includeMetadata, clock)
    \/ \E value \in SortKeys : UpdateSettings("sortBy", value)
    \/ \E value \in SortOrders : UpdateSettings("sortOrder", value)

OutputSpec == OutputInit /\ [][OutputNext]_vars

----------------------------------------------------------------------------
(* Claims about the outputs, OutputSpec *)

\* The files whose path no enabled rule matches, in their order
NotExcluded(current, rules) ==
    SelectSeq(current,
              LAMBDA f : ~\E i \in 1..Len(rules) :
                            rules[i].enabled /\ matchesPattern(f.path, rules[i]).value)

\* C23: the files of every output, the panel's and every export's, are the
\* files of the working set that no enabled rule matches: none that a rule
\* matches is included and none that no rule matches is left out.
C23_ExcludedFilesOmitted ==
    /\ pc = "render" => shown.files = NotExcluded(currentFiles, excludePatterns)
    /\ (pc = "generateExport" /\ ~exported.alerted) =>
          exported.filteredFiles = NotExcluded(currentFiles, excludePatterns)

\* Code points of the characters of the names and paths of WorkingFiles
CharCode(c) ==
    CASE c = "." -> 46 [] c = "/" -> 47 [] c = "a" -> 97 [] c = "b" -> 98
      [] c = "c" -> 99 [] c = "d" -> 100 [] OTHER -> 0

\* s comes before t or is equal to it, comparing code points
RECURSIVE StringLeq(_, _)
StringLeq(s, t) ==
    IF s = <<>> THEN TRUE
    ELSE IF t = <<>> THEN FALSE
    ELSE IF Head(s) # Head(t) THEN CharCode(Head(s)) < CharCode(Head(t))
    ELSE StringLeq(Tail(s), Tail(t))

\* f is not after g in the order of the key
KeyLeq(f, g, key) ==
    CASE key = "name" -> StringLeq(f.name, g.name)
      [] key = "path" -> StringLeq(f.path, g.path)
      [] key = "size" -> f.size <= g.size
      [] key = "modified" -> f.lastModified <= g.lastModified

Ordered(fs, key, order) ==
    \A i \in 1..(Len(fs) - 1) :
        IF order = "asc" THEN KeyLeq(fs[i], fs[i + 1], key) ELSE KeyLeq(fs[i + 1], fs[i], key)

\* C24: the files the panel passes to concatenateFiles are sorted by
\* settings.sortBy in the direction settings.sortOrder.
C24_SortedBySettings ==
    pc = "render" => Ordered(shown.files, settings.sortBy, settings.sortOrder)

----------------------------------------------------------------------------
(* performanceUtils.ts: processBatch. The call advances one await at a      *)
(* time; the processor calls of a batch settle in any order, each resolved  *)
(* or rejected.                                                             *)

MaxItems == 3

MaxBatchSize == 3

\* The onProgress calls kept: more than any call with a positive batchSize
\* makes
MaxProgressCalls == MaxItems + 1

\* Array.prototype.slice giving everything from start on
ArraySlice_ToEnd(a, start, end) == SubSeq(a, start + 1, Len(a))

\* Array.prototype.slice(start, end) for 0 <= start <= end
ArraySlice(a, start, end) == SubSeq(a, start + 1, IF end > Len(a) THEN Len(a) ELSE end)

\* What the processor resolves to for an item
ProcessorResult(x) == <<"result", x>>

\* Math.min(i + batchSize, items.length)
MathMin(a, b) == IF a < b THEN a ELSE b

\* The places of the batch that starts at the cursor
BatchPlaces == (cursor + 1)..(cursor + Len(ArraySlice(batchItems, cursor, cursor + batchSize)))

BatchInit ==
    /\ pc = "for"
    /\ batchItems \in {[k \in 1..n |-> k] : n \in 0..MaxItems}
    /\ batchSize \in 0..MaxBatchSize
    /\ cursor = 0
    /\ processorCalls = [k \in 1..Len(batchItems) |-> "notStarted"]
    /\ finished = <<>>
    /\ batchResults = <<>>
    /\ progressCalls = <<>>
    /\ IdlePattern
    /\ IdleConcat
    /\ IdleClassify
    /\ IdleStats
    /\ IdleGitHub
    /\ IdleProcess
    /\ IdleStore
    /\ IdleRules
    /\ IdleOutput
    /\ IdleDebounce
    /\ IdleCollections
    /\ IdlePicker

unbatchedVars == <<patternVars, concatVars, classifyVars, statsVars, githubVars, processVars,
                   storeVars, rulesVars, outputVars, debounceVars, collectionVars,
                   pickerVars>>

\* Lines 91-93: the loop test holds, the batch is sliced and the processor is
\* called on each of its items
StartBatch ==
    /\ pc = "for"
    /\ cursor < Len(batchItems)
    /\ pc' = "Promise.all"
    /\ processorCalls' = [k \in 1..Len(batchItems) |->
                            IF k \in BatchPlaces THEN "pending" ELSE processorCalls[k]]
    /\ UNCHANGED <<batchItems, batchSize, cursor, finished, batchResults, progressCalls>>
    /\ UNCHANGED unbatchedVars

\* A processor call settles
ProcessorSettles(k, ok) ==
    /\ processorCalls[k] = "pending"
    /\ processorCalls' = [processorCalls EXCEPT ![k] = IF ok THEN "resolved" ELSE "rejected"]
    /\ finished' = Append(finished, [index |-> k - cursor, place |-> k, ok |-> ok,
                                     result |-> ProcessorResult(batchItems[k])])
    /\ UNCHANGED <<pc, batchItems, batchSize, cursor, batchResults, progressCalls>>
    /\ UNCHANGED unbatchedVars

\* Lines 93-101: Promise.all resolves once every call of the batch has; the
\* results are pushed, onProgress is called and the timer is set
BatchResolves ==
    LET done == SelectSeq(finished, LAMBDA d : d.place \in BatchPlaces) IN
    /\ pc = "Promise.all"
    /\ \A k \in BatchPlaces : processorCalls[k] = "resolved"
    /\ pc' = "setTimeout"
    /\ batchResults' = batchResults \o PromiseAll(done, Cardinality(BatchPlaces))
    /\ progressCalls' =
          IF Len(progressCalls) < MaxProgressCalls
          THEN Append(progressCalls,
                      [processed |-> MathMin(cursor + batchSize, Len(batchItems)),
                       total |-> Len(batchItems)])
          ELSE progressCalls
    /\ UNCHANGED <<batchItems, batchSize, cursor, processorCalls, finished>>
    /\ UNCHANGED unbatchedVars

\* Promise.all rejects as soon as a call of the batch has: processBatch
\* rejects
BatchRejects ==
    /\ pc = "Promise.all"
    /\ \E k \in BatchPlaces : processorCalls[k] = "rejected"
    /\ pc' = "rejected"
    /\ UNCHANGED batchVars
    /\ UNCHANGED unbatchedVars

\* Line 101 and the loop's step: the timer fires, i += batchSize
TimerFires ==
    /\ pc = "setTimeout"
    /\ pc' = "for"
    /\ cursor' = cursor + batchSize
    /\ UNCHANGED <<batchItems, batchSize, processorCalls, finished, batchResults,
                   progressCalls>>
    /\ UNCHANGED unbatchedVars

\* Line 104: the loop test fails
ProcessBatchReturns ==
    /\ pc = "for"
    /\ cursor >= Len(batchItems)
    /\ pc' = "returned"
    /\ UNCHANGED batchVars
    /\ UNCHANGED unbatchedVars

BatchNext ==
    \/ StartBatch
    \/ \E k \in 1..Len(batchItems), ok \in BOOLEAN : ProcessorSettles(k, ok)
    \/ BatchResolves
    \/ BatchRejects
    \/ TimerFires
    \/ ProcessBatchReturns

BatchSpec == BatchInit /\ [][BatchNext]_vars

\* Every step that can be taken is taken in the end: processor calls settle,
\* timers fire and resumed code runs
BatchLiveSpec == BatchSpec /\ WF_vars(BatchNext)

----------------------------------------------------------------------------
(* Claims about processBatch, BatchSpec and BatchLiveSpec *)

InFlight == {k \in 1..Len(batchItems) : processorCalls[k] = "pending"}

\* The batch an item belongs to, for a positive batchSize
BatchNumber(k) == (k - 1) \div batchSize

\* The number of batches of the list, for a positive batchSize
Batches == (Len(batchItems) + batchSize - 1) \div batchSize

\* C25: at most batchSize processor calls are in flight; no item of a batch
\* is started before every item of the batches before it has resolved; the
\* results returned are those of the items in input order; onProgress is
\* called once per batch, its counts never decrease nor exceed the total,
\* and the last one is the total.
C25_BoundedBatches ==
    /\ Cardinality(InFlight) <= batchSize
    /\ \A k, m \in 1..Len(batchItems) :
          (batchSize > 0 /\ processorCalls[k] # "notStarted"
             /\ BatchNumber(m) < BatchNumber(k)) => processorCalls[m] = "resolved"
    /\ pc = "returned" =>
          batchResults = [k \in 1..Len(batchItems) |-> ProcessorResult(batchItems[k])]
    /\ \A i \in 1..Len(progressCalls) :
          /\ progressCalls[i].processed <= progressCalls[i].total
          /\ progressCalls[i].total = Len(batchItems)
          /\ i > 1 => progressCalls[i - 1].processed <= progressCalls[i].processed
    /\ batchSize > 0 =>
          Len(progressCalls) = cursor \div batchSize + (IF pc = "setTimeout" THEN 1 ELSE 0)
    /\ (pc = "returned" /\ Len(batchItems) > 0) =>
          /\ Len(progressCalls) = Batches
          /\ progressCalls[Len(progressCalls)].processed = Len(batchItems)

\* three items in batches of two returned, the second item having settled
\* before the first
C25_Witness ==
    /\ pc = "returned"
    /\ Len(batchItems) = 3
    /\ batchSize = 2
    /\ finished[1].place = 2
    /\ Len(progressCalls) = 2
    /\ progressCalls[1].processed = 2

\* C27: if every processor call resolves, processBatch resolves in the end
\* with one result per item, whatever the list and the batchSize.
C27_Terminates ==
    <>(\/ \E k \in 1..Len(batchItems) : processorCalls[k] = "rejected"
       \/ pc = "returned" /\ Len(batchResults) = Len(batchItems))

----------------------------------------------------------------------------
(* performanceUtils.ts: debounce. Time advances in milliseconds; a timer    *)
(* may fire at its due time or later, and a call of the debounced function  *)
(* may come at any time.                                                    *)

MaxTime == 4

MaxWait == 2

MaxCalls == 3

\* clearTimeout that leaves the timer set
clearTimeout_Keep(table, id) == table

\* clearTimeout(id): no timer of that id is left; nothing happens when there
\* is none
clearTimeout(table, id) == {t \in table : t.id # id}

\* setTimeout(() => func(...args), delay) at time t, returning id
setTimeout(table, id, args, delay, t) ==
    table \cup {[id |-> id, due |-> t + delay, args |-> args]}

CallsMade == Cardinality({i \in 1..Len(timeline) : timeline[i].kind = "call"})

DebounceInit ==
    /\ pc = "debounce"
    /\ wallClock = 0
    /\ waitMs \in 0..MaxWait
    /\ timeoutId = 0
    /\ timers = {}
    /\ timeline = <<>>
    /\ IdlePattern
    /\ IdleConcat
    /\ IdleClassify
    /\ IdleStats
    /\ IdleGitHub
    /\ IdleProcess
    /\ IdleStore
    /\ IdleRules
    /\ IdleOutput
    /\ IdleBatch
    /\ IdleCollections
    /\ IdlePicker

undebouncedVars == <<pc, patternVars, concatVars, classifyVars, statsVars, githubVars,
                     processVars, storeVars, rulesVars, outputVars, batchVars,
                     collectionVars, pickerVars>>

\* Lines 56-59: the function debounce returns is called
Debounced(args) ==
    /\ CallsMade < MaxCalls
    /\ wallClock + waitMs <= MaxTime
    /\ timeoutId' = CallsMade + 1
    /\ timers' = setTimeout(clearTimeout(timers, timeoutId), CallsMade + 1, args, waitMs,
                            wallClock)
    /\ timeline' = Append(timeline, [kind |-> "call", at |-> wallClock, args |-> args])
    /\ UNCHANGED <<wallClock, waitMs>>
    /\ UNCHANGED undebouncedVars

\* A timer that is due fires: func(...args) runs
TimeoutFires(t) ==
    /\ t \in timers
    /\ wallClock >= t.due
    /\ timers' = timers \ {t}
    /\ timeline' = Append(timeline, [kind |-> "run", at |-> wallClock, args |-> t.args])
    /\ UNCHANGED <<wallClock, waitMs, timeoutId>>
    /\ UNCHANGED undebouncedVars

Tick ==
    /\ wallClock < MaxTime
    /\ wallClock' = wallClock + 1
    /\ UNCHANGED <<waitMs, timeoutId, timers, timeline>>
    /\ UNCHANGED undebouncedVars

DebounceArguments == {"x", "y"}

DebounceNext ==
    \/ \E args \in DebounceArguments : Debounced(args)
    \/ \E t \in timers : TimeoutFires(t)
    \/ Tick

DebounceSpec == DebounceInit /\ [][DebounceNext]_vars

\* Time passes and a timer that is due fires in the end
DebounceLiveSpec ==
    DebounceSpec /\ WF_vars(Tick) /\ WF_vars(\E t \in timers : TimeoutFires(t))

----------------------------------------------------------------------------
(* Claims about debounce, DebounceLiveSpec *)

Of(kind) == {i \in 1..Len(timeline) : timeline[i].kind = kind}

\* The most recent call before place j of the timeline, 0 if there is none
LastCallBefore(j) ==
    IF \E i \in Of("call") : i < j
    THEN CHOOSE i \in Of("call") : i < j /\ \A k \in Of("call") : k < j => k <= i
    ELSE 0

DebounceSafe ==
    /\ \A j \in Of("run") :
          LET i == LastCallBefore(j) IN
          /\ i > 0
          /\ timeline[j].at - timeline[i].at >= waitMs
          /\ timeline[j].args = timeline[i].args
          /\ \A k \in Of("run") : ~(i < k /\ k < j)
    /\ \A i, j \in Of("call") :
          (i = LastCallBefore(j) /\ timeline[j].at - timeline[i].at < waitMs)
             => \A k \in Of("run") : ~(i < k /\ k < j)

\* C26: func runs only when wait milliseconds have passed since the most
\* recent call, with the arguments of that call and once for it; between two
\* calls less than wait apart it does not run; and after a call that no
\* other follows it does run.
C26_Debounced == []DebounceSafe /\ (timers # {} ~> timers = {})

\* a burst of three calls a millisecond apart, then one run with the
\* arguments of the last
C26_Witness ==
    /\ waitMs = 2
    /\ Len(timeline) = 4
    /\ timeline[1] = [kind |-> "call", at |-> 0, args |-> "x"]
    /\ timeline[2] = [kind |-> "call", at |-> 1, args |-> "y"]
    /\ timeline[3] = [kind |-> "call", at |-> 2, args |-> "x"]
    /\ timeline[4] = [kind |-> "run", at |-> 4, args |-> "x"]

----------------------------------------------------------------------------
(* The collection actions of the store (the second useAppStore of           *)
(* GitHubPicker.tsx) with deleteCollection, as CollectionManager calls      *)
(* them: any of them may start while others await the database, and every   *)
(* database call succeeds or fails.                                         *)

MaxCollectionSteps == 6

CollectionInit ==
    /\ pc = "store"
    /\ currentFiles = <<>>
    /\ excludePatterns = <<>>
    /\ collections = <<>>
    /\ activeCollectionId = <<>>
    /\ selectedFiles = <<>>
    /\ previewFile = <<>>
    /\ settings = [includeHeaders |-> TRUE, headerFormat |-> "comment",
                   sortBy |-> "name", sortOrder |-> "asc"]
    /\ db \in {<<>>, <<<<StoredCollection>>>>}
    /\ saving = <<>>
    /\ loading = <<>>
    /\ deleting = <<>>
    /\ generated = 0
    /\ storeArg = <<>>
    /\ steps = MaxCollectionSteps
    /\ IdlePattern
    /\ IdleConcat
    /\ IdleClassify
    /\ IdleStats
    /\ IdleGitHub
    /\ IdleProcess
    /\ IdleRules
    /\ IdleOutput
    /\ IdleBatch
    /\ IdleDebounce
    /\ IdlePicker

uncollectedVars == <<rulesVars, outputVars, batchVars, debounceVars, pickerVars>>

\* deleteCollection(id) up to its first await
DeleteCollection(id) ==
    /\ Step("deleteCollection", id)
    /\ deleting' = Append(deleting, [awaits |-> "deleteCollection", id |-> id])
    /\ UNCHANGED <<currentFiles, excludePatterns, collections, activeCollectionId,
                   selectedFiles, previewFile, settings, db, saving, loading, generated>>
    /\ UNCHANGED uncollectedVars

\* db.collections.delete settles: the row is gone and the call goes on to
\* getAllCollections, or the delete failed, the catch logs it and the promise
\* of the call resolves
DeleteCollectionSettles(k, ok) ==
    /\ deleting[k].awaits = "deleteCollection"
    /\ Step(IF ok THEN "deleteCollection" ELSE "deleteCollection resolved",
            [deleted |-> FALSE, listed |-> FALSE, id |-> deleting[k].id])
    /\ IF ok
       THEN /\ db' = deleteCollection(db, deleting[k].id)
            /\ deleting' = [deleting EXCEPT ![k].awaits = "getAllCollections"]
       ELSE /\ deleting' = Without(deleting, k)
            /\ UNCHANGED db
    /\ UNCHANGED <<currentFiles, excludePatterns, collections, activeCollectionId,
                   selectedFiles, previewFile, settings, saving, loading, generated>>
    /\ UNCHANGED uncollectedVars

\* getAllCollections settles: set({collections, activeCollectionId:
\* activeCollectionId === id ? undefined : activeCollectionId}), or it failed
\* and the catch logs it; the promise of the call resolves
DeleteListingSettles(k, ok) ==
    /\ deleting[k].awaits = "getAllCollections"
    /\ Step("deleteCollection resolved",
            [deleted |-> TRUE, listed |-> ok, id |-> deleting[k].id])
    /\ deleting' = Without(deleting, k)
    /\ IF ok
       THEN /\ collections' = getAllCollections(db)
            /\ activeCollectionId' = IF activeCollectionId = <<deleting[k].id>> THEN <<>>
                                     ELSE activeCollectionId
       ELSE UNCHANGED <<collections, activeCollectionId>>
    /\ UNCHANGED <<currentFiles, excludePatterns, selectedFiles, previewFile, settings, db,
                   saving, loading, generated>>
    /\ UNCHANGED uncollectedVars

CollectionNext ==
    \/ \E name \in CollectionNames : SaveCurrentAsCollection(name)
    \/ \E k \in 1..Len(saving), ok \in BOOLEAN : SaveCollectionSettles(k, ok)
    \/ \E k \in 1..Len(saving), ok \in BOOLEAN : SaveListingSettles(k, ok)
    \/ LoadAllCollections
    \/ \E i \in 1..Len(collections) : LoadCollection(collections[i].id)
    \/ \E k \in 1..Len(loading), ok \in BOOLEAN : LoadCollectionSettles(k, ok)
    \/ \E i \in 1..Len(collections) : DeleteCollection(collections[i].id)
    \/ \E k \in 1..Len(deleting), ok \in BOOLEAN : DeleteCollectionSettles(k, ok)
    \/ \E k \in 1..Len(deleting), ok \in BOOLEAN : DeleteListingSettles(k, ok)

CollectionSpec == CollectionInit /\ [][CollectionNext]_vars

----------------------------------------------------------------------------
(* Claims about the collection actions, CollectionSpec *)

\* The keys of the rows the table holds
PresentKeys(table) == {key \in DOMAIN table : table[key] # <<>>}

\* The list holds the rows of the table, each once, the latest first
Lists(list, table) ==
    /\ Len(list) = Cardinality(PresentKeys(table))
    /\ \A i \in 1..Len(list) :
          /\ list[i].id \in PresentKeys(table)
          /\ table[list[i].id] = <<list[i]>>
          /\ \A j \in 1..Len(list) : i < j => list[i].id > list[j].id

\* C22: the promise of saveCurrentAsCollection resolves however the database
\* answers; when the database calls succeed activeCollectionId is the id the
\* save returned and collections is the list the database holds; when the
\* save fails, the files, the rules, the settings, the list and
\* activeCollectionId are as before.
C22_SaveNeverRejects ==
    [][Len(saving') < Len(saving) =>
          /\ pc' = "saveCurrentAsCollection resolved"
          /\ (storeArg'.persisted /\ storeArg'.listed) =>
                /\ activeCollectionId' = <<storeArg'.id>>
                /\ Lists(collections', db')
          /\ ~storeArg'.persisted =>
                /\ db' = db
                /\ UNCHANGED <<currentFiles, excludePatterns, settings, collections,
                               activeCollectionId, pickerVars>>]_vars

\* a loaded collection was saved again: the new one is active and listed
\* before the old one
C22_Witness ==
    /\ pc = "saveCurrentAsCollection resolved"
    /\ storeArg = [persisted |-> TRUE, listed |-> TRUE, id |-> 2]
    /\ activeCollectionId = <<2>>
    /\ Len(collections) = 2
    /\ collections[1].id = 2
    /\ collections[1].files = StoredCollection.files
    /\ currentFiles = StoredCollection.files

\* C28: once saveCurrentAsCollection has settled, either the collection was
\* persisted and the store lists it and has its id as activeCollectionId, or
\* nothing was persisted.
C28_AllOrNothing ==
    (pc = "saveCurrentAsCollection resolved" /\ storeArg.persisted) =>
        /\ activeCollectionId = <<storeArg.id>>
        /\ \E i \in 1..Len(collections) : collections[i].id = storeArg.id

\* C29: whenever no saveCurrentAsCollection, loadCollection or
\* deleteCollection is in flight, activeCollectionId is undefined or the id
\* of a collection the database holds.
C29_ActiveExists ==
    (saving = <<>> /\ loading = <<>> /\ deleting = <<>> /\ activeCollectionId # <<>>)
        => activeCollectionId[1] \in PresentKeys(db)

----------------------------------------------------------------------------
(* GitHubPicker.tsx and githubService.ts: the token. githubService is one   *)
(* object for the whole application; the component keeps what the token     *)
(* field holds.                                                             *)

MaxFetches == 3

\* GitHubService.setToken
setToken(token) == <<token>>

\* The headers makeRequest sends, lines 45-52; authorization is <<>> when the
\* header is absent
makeRequestHeaders(token) ==
    [accept |-> "application/vnd.github.v3+json",
     userAgent |-> "File-Concatenator/1.0",
     authorization |-> IF token # <<>> /\ token[1] # <<>>     \* if (this.token)
                       THEN <<<<"t", "o", "k", "e", "n", " ">> \o token[1]>>
                       ELSE <<>>]

\* What a user leaves in the token field
TokenFields == {<<>>, <<" ">>, <<"t">>, <<"u">>, <<" ", "t">>}

PickerInit ==
    /\ pc = "picker"
    /\ tokenField = <<>>
    /\ serviceToken = <<>>
    /\ fetches = <<>>
    /\ IdlePattern
    /\ IdleConcat
    /\ IdleClassify
    /\ IdleStats
    /\ IdleGitHub
    /\ IdleProcess
    /\ IdleStore
    /\ IdleRules
    /\ IdleOutput
    /\ IdleBatch
    /\ IdleDebounce
    /\ IdleCollections

unpickedVars == <<patternVars, concatVars, classifyVars, statsVars, githubVars, processVars,
                  storeVars, rulesVars, outputVars, batchVars, debounceVars, collectionVars>>

\* The token field is edited, line 141
SetToken(value) ==
    /\ value # tokenField
    /\ pc' = "setToken"
    /\ tokenField' = value
    /\ UNCHANGED <<serviceToken, fetches>>
    /\ UNCHANGED unpickedVars

\* handleFetchRepository on a repository URL that parses, lines 22-72: the
\* token is set if the field holds one, then validateRepository and
\* getAllFiles make their requests
HandleFetchRepository ==
    LET used == IF trim(tokenField) # <<>> THEN setToken(trim(tokenField)) ELSE serviceToken IN
    /\ Len(fetches) < MaxFetches
    /\ pc' = "handleFetchRepository"
    /\ serviceToken' = used
    /\ fetches' = Append(fetches, [field |-> tokenField, headers |-> makeRequestHeaders(used)])
    /\ UNCHANGED tokenField
    /\ UNCHANGED unpickedVars

PickerNext ==
    \/ \E value \in TokenFields : SetToken(value)
    \/ HandleFetchRepository

PickerSpec == PickerInit /\ [][PickerNext]_vars

----------------------------------------------------------------------------
(* Claims about the token, PickerSpec *)

\* C30: the requests of a fetch carry an Authorization header if and only if
\* the token field held a token when the fetch was started.
C30_AuthorizationIffToken ==
    \A i \in 1..Len(fetches) :
        fetches[i].headers.authorization # <<>> <=> trim(fetches[i].field) # <<>>

====
